---------------------------- MODULE Spec2Model ----------------------------
(***************************************************************************)
(* TonsoTranslator: the segmentation / translation / synchronisation core. *)
(*                                                                         *)
(*   SpecGrouper   groupSegmentsIntoChunks  (services/youtubeService.ts)   *)
(*   SpecRetry     withRetry                (services/geminiService.ts)    *)
(*   SpecPipeline  translateAllChunks       (services/geminiService.ts)    *)
(*   SpecAnalyze   analyzeContext           (services/geminiService.ts)    *)
(*   SpecEngine    AudioSyncEngine          (services/audioSyncService.ts) *)
(*                                                                         *)
(* Times are counted in half seconds (Sec(n) is n seconds), so that the    *)
(* fractional caption durations of the transcript (1.5 s, 2.5 s) are       *)
(* integers.  A text is a sequence of one-character strings.  Audio        *)
(* durations are counted in bytes of 16-bit 24 kHz mono PCM, 24000 of      *)
(* which are half a second.                                                *)
(***************************************************************************)
EXTENDS Integers, Sequences, FiniteSets, TLC

VARIABLES
    \* ---- groupSegmentsIntoChunks ----
    segments,       \* the argument: a sequence of TranscriptSegment
    groupPc,        \* "call" before the call, "done" after it
    groupResult,    \* the returned TranscriptChunk[] (<<>> before the call)
    \* ---- withRetry: the invocation in progress ----
    maxRetries,     \* the maxRetries argument
    attempt,        \* the loop variable
    retryPc,        \* "idle", "awaitFn", "sleeping", "returned", "raised"
    retryResult,    \* <<v>> once withRetry has returned v, else <<>>
    retryThrown,    \* <<e>> once withRetry has thrown e, else <<>>
    retryTrace,     \* history: the settled attempts and the sleeps, in order
    fnCalls,        \* history: number of invocations of fn
    outstanding,    \* number of invocations of fn that have not settled
    \* ---- translateAllChunks ----
    chunks,                 \* the argument: a sequence of TranscriptChunk
    pipePc,                 \* "idle", "translate", "tts", "returned", "raised"
    i,                      \* the loop variable
    translatedChunks,       \* the local array of TranslatedChunk
    previousTranslations,   \* the local array of translated texts
    translatedText,         \* the translated text of chunk i
    request,                \* <<r>>: the request the pending service calls send
    pipeResult,             \* <<a>> once translateAllChunks has returned a
    pipeError,              \* <<e>> once translateAllChunks has thrown e
    events,                 \* history: onProgress calls and phase calls, in order
    ttsFailed,              \* history: the indices whose generateTTS caught an error
    serviceAttempts,        \* history: number of service calls that have settled
    \* ---- analyzeContext ----
    analyzePc,      \* "idle", "await", "returned", "raised"
    analyzeResult,  \* <<p>> once analyzeContext has returned the profile p
    analyzeThrown,  \* <<e>> once analyzeContext has thrown e
    \* ---- AudioSyncEngine ----
    engineChunks,       \* this.chunks
    audioBuffers,       \* chunk id -> duration of the decoded AudioBuffer
    scheduledSources,   \* chunk id -> the source node held for it (its gen)
    sources,            \* the source nodes that exist and are not yet gone
    isPlaying,
    playbackStartTime,
    videoTimeOffset,
    onSubtitleChange,   \* TRUE once a callback is registered
    subtitleInterval,   \* NoTimer or the id of the interval timer
    timers,             \* active interval timer id -> its lastSubtitleId
    now,                \* audioContext.currentTime
    closed,             \* the audio context has been closed
    closeRejected,      \* history: a close() of the audio context was rejected
    playCount,          \* history: number of runs of play()
    lastPlay,           \* history: argument and clock of the last play()
    lastCall,           \* history: the last call of play, pause or seekTo
    lastPoll,           \* history: the last poll since the last play, pause or destroy
    \* ---- App ----
    apiKey,             \* TRUE when process.env.API_KEY is set
    urlInput,
    videoId,            \* <<id>>, or <<>> for null
    videoMetadata,      \* <<metadata>>, or <<>> for null
    settings,
    processingState,
    showContentWarning,
    errorMessage,       \* <<message>>, or <<>> for null
    isFetchingPreview,
    contextResult,      \* <<analysis>>, or <<>> for null
    transcriptChunks,
    appTranslatedChunks,    \* the App's translatedChunks
    translationProgress,    \* <<progress>>, or <<>> for null
    appTasks,           \* the handler calls suspended at an await, and timers
    started,            \* history: number of calls of translateAllChunks
    failedRuns,         \* history: the calls that ended in a fatal condition
    appLast,            \* history: the last step of the App
    \* ---- VideoPlayer ----
    playerChunks,       \* the translatedChunks prop
    playerIsPlaying,    \* the isPlaying state of the component
    playerLast          \* history: the last event or seek the component handled

grouperVars == <<segments, groupPc, groupResult>>

retryVars == <<maxRetries, attempt, retryPc, retryResult, retryThrown,
               retryTrace, fnCalls, outstanding>>

pipeVars == <<chunks, pipePc, i, translatedChunks, previousTranslations,
              translatedText, request, pipeResult, pipeError, events, ttsFailed,
              serviceAttempts>>

analyzeVars == <<analyzePc, analyzeResult, analyzeThrown>>

engineVars == <<engineChunks, audioBuffers, scheduledSources, sources,
                isPlaying, playbackStartTime, videoTimeOffset,
                onSubtitleChange, subtitleInterval, timers, now, closed, closeRejected,
                playCount, lastPlay, lastCall, lastPoll>>

appVars == <<apiKey, urlInput, videoId, videoMetadata, settings, processingState,
             showContentWarning, errorMessage, isFetchingPreview, contextResult,
             transcriptChunks, appTranslatedChunks, translationProgress,
             appTasks, started, failedRuns, appLast>>

playerVars == <<playerChunks, playerIsPlaying, playerLast>>

vars == <<segments, groupPc, groupResult,
          maxRetries, attempt, retryPc, retryResult, retryThrown,
          retryTrace, fnCalls, outstanding,
          chunks, pipePc, i, translatedChunks, previousTranslations,
          translatedText, request, pipeResult, pipeError, events, ttsFailed, serviceAttempts,
          analyzePc, analyzeResult, analyzeThrown,
          engineChunks, audioBuffers, scheduledSources, sources,
          isPlaying, playbackStartTime, videoTimeOffset,
          onSubtitleChange, subtitleInterval, timers, now, closed, closeRejected,
          playCount, lastPlay, lastCall, lastPoll,
          apiKey, urlInput, videoId, videoMetadata, settings, processingState,
          showContentWarning, errorMessage, isFetchingPreview, contextResult,
          transcriptChunks, appTranslatedChunks, translationProgress,
          appTasks, started, failedRuns, appLast,
          playerChunks, playerIsPlaying, playerLast>>

-----------------------------------------------------------------------------
(* Helpers *)

Sec(n) == 2 * n

Last(s) == s[Len(s)]

SeqsUpTo(S, n) == UNION {[1..k -> S] : k \in 0..n}

RECURSIVE ConcatAll(_)
ConcatAll(ss) == IF Len(ss) = 0 THEN <<>> ELSE Head(ss) \o ConcatAll(Tail(ss))

-----------------------------------------------------------------------------
(* Texts *)

IsSpace(c) == c \in {" ", "\t", "\n"}

\* String.prototype.trim
RECURSIVE TrimLeft(_)
TrimLeft(t) == IF Len(t) > 0 /\ IsSpace(Head(t)) THEN TrimLeft(Tail(t)) ELSE t

RECURSIVE TrimRight(_)
TrimRight(t) ==
    IF Len(t) > 0 /\ IsSpace(Last(t)) THEN TrimRight(SubSeq(t, 1, Len(t) - 1)) ELSE t

Trim(t) == TrimRight(TrimLeft(t))

\* /[.!?;:]$/.test(t)
EndsWithPunctuation(t) == Len(t) > 0 /\ Last(t) \in {".", "!", "?", ";", ":"}

\* Array.prototype.join(' ')
RECURSIVE JoinSpace(_)
JoinSpace(ts) ==
    IF Len(ts) = 0 THEN <<>>
    ELSE IF Len(ts) = 1 THEN ts[1]
    ELSE ts[1] \o <<" ">> \o JoinSpace(Tail(ts))

-----------------------------------------------------------------------------
(* groupSegmentsIntoChunks *)

CHUNK_MAX_DURATION_SEC == 15
CHUNK_MIN_DURATION_SEC == 3

MaxSegs == 3

TextPool == { <<"a">>, <<"a", ".">>, <<"b", "?", " ">> }

\* 0 s, 1.5 s, 2 s, 2.5 s and 15 s: the transcript endpoint hands over
\* whatever parseFloat reads from the dur attribute, zero included
DurationPool == { 0, 3, Sec(2), 5, Sec(CHUNK_MAX_DURATION_SEC) }

\* A caption as the transcript endpoint delivers it; captions follow one
\* another, each starting where the previous one ends.
RECURSIVE WithOffsets(_, _)
WithOffsets(kinds, start) ==
    IF Len(kinds) = 0 THEN <<>>
    ELSE <<[text |-> Head(kinds).text, offset |-> start,
            duration |-> Head(kinds).duration]>>
         \o WithOffsets(Tail(kinds), start + Head(kinds).duration)

\* Captions of an automatic transcript overlap: each starts half a second
\* after the previous one whatever that one's duration.
WithStride(kinds) ==
    [k \in 1..Len(kinds) |-> [text |-> kinds[k].text, offset |-> k - 1,
                              duration |-> kinds[k].duration]]

\* 2 s "Hello there.", 2.5 s "How are you", 1.5 s "today?"
ExampleSegments ==
    WithOffsets(<< [text |-> <<"H","e","l","l","o"," ","t","h","e","r","e",".">>,
                    duration |-> Sec(2)],
                   [text |-> <<"H","o","w"," ","a","r","e"," ","y","o","u">>,
                    duration |-> 5],
                   [text |-> <<"t","o","d","a","y","?">>,
                    duration |-> 3] >>, 0)

\* one caption of the minimum duration per final character
FinalCharInputs ==
    { WithOffsets(<<[text |-> <<"c", mark>>, duration |-> Sec(CHUNK_MIN_DURATION_SEC)]>>, 0) :
        mark \in {".", "!", "?", ";", ":", ","} }

SegmentKinds == [text : TextPool, duration : DurationPool]

ContiguousInputs ==
    { WithOffsets(ks, 0) : ks \in SeqsUpTo(SegmentKinds, MaxSegs) }

OverlappingInputs ==
    { WithStride(ks) : ks \in SeqsUpTo(SegmentKinds, MaxSegs) }

IsSegmentInput(segs) ==
    \/ segs \in ContiguousInputs
    \/ segs \in OverlappingInputs
    \/ segs = ExampleSegments
    \/ segs \in FinalCharInputs

MakeChunkEndAtOffset(id, currentSegments) ==
    [ id        |-> id,
      segments  |-> currentSegments,
      startTime |-> currentSegments[1].offset,
      endTime   |-> Last(currentSegments).offset,
      fullText  |-> JoinSpace([k \in 1..Len(currentSegments) |->
                                  currentSegments[k].text]) ]

MakeChunk(id, currentSegments) ==
    [ id        |-> id,
      segments  |-> currentSegments,
      startTime |-> currentSegments[1].offset,
      endTime   |-> Last(currentSegments).offset + Last(currentSegments).duration,
      fullText  |-> JoinSpace([k \in 1..Len(currentSegments) |->
                                  currentSegments[k].text]) ]

ShouldCloseDropMin(currentDuration, segment) ==
    \/ currentDuration >= Sec(CHUNK_MAX_DURATION_SEC)
    \/ EndsWithPunctuation(Trim(segment.text))

ShouldCloseStrictMax(currentDuration, segment) ==
    \/ currentDuration > Sec(CHUNK_MAX_DURATION_SEC)
    \/ /\ EndsWithPunctuation(Trim(segment.text))
       /\ currentDuration >= Sec(CHUNK_MIN_DURATION_SEC)

\* lines 65-70: the test that closes the running chunk
ShouldClose(currentDuration, segment) ==
    LET isLongEnough == currentDuration >= Sec(CHUNK_MAX_DURATION_SEC)
        endsWithPunctuation == EndsWithPunctuation(Trim(segment.text))
        isMinDuration == currentDuration >= Sec(CHUNK_MIN_DURATION_SEC)
    IN  isLongEnough \/ (endsWithPunctuation /\ isMinDuration)

GroupInit == [chunks |-> <<>>, currentSegments |-> <<>>, currentDuration |-> 0,
              chunkId |-> 0]

GroupIterationKeepsSegments(st, segment) ==
    LET currentSegments == Append(st.currentSegments, segment)
        currentDuration == st.currentDuration + segment.duration
    IN  IF ShouldClose(currentDuration, segment)
        THEN [ chunks |-> Append(st.chunks, MakeChunk(st.chunkId, currentSegments)),
               currentSegments |-> currentSegments,
               currentDuration |-> 0,
               chunkId |-> st.chunkId + 1 ]
        ELSE [st EXCEPT !.currentSegments = currentSegments,
                        !.currentDuration = currentDuration]

GroupIterationSameId(st, segment) ==
    LET currentSegments == Append(st.currentSegments, segment)
        currentDuration == st.currentDuration + segment.duration
    IN  IF ShouldClose(currentDuration, segment)
        THEN [ chunks |-> Append(st.chunks, MakeChunk(st.chunkId, currentSegments)),
               currentSegments |-> <<>>,
               currentDuration |-> 0,
               chunkId |-> st.chunkId ]
        ELSE [st EXCEPT !.currentSegments = currentSegments,
                        !.currentDuration = currentDuration]

\* lines 60-86: one iteration of the for loop
GroupIteration(st, segment) ==
    LET currentSegments == Append(st.currentSegments, segment)
        currentDuration == st.currentDuration + segment.duration
    IN  IF ShouldClose(currentDuration, segment)
        THEN [ chunks |-> Append(st.chunks, MakeChunk(st.chunkId, currentSegments)),
               currentSegments |-> <<>>,
               currentDuration |-> 0,
               chunkId |-> st.chunkId + 1 ]
        ELSE [st EXCEPT !.currentSegments = currentSegments,
                        !.currentDuration = currentDuration]

RECURSIVE GroupLoop(_, _, _)
GroupLoop(segs, k, st) ==
    IF k > Len(segs) THEN st
    ELSE GroupLoop(segs, k + 1, GroupIteration(st, segs[k]))

GroupRemainderDropped(st) == st.chunks

\* lines 88-103: the remaining segments form the last chunk
GroupRemainder(st) ==
    IF Len(st.currentSegments) > 0
    THEN Append(st.chunks, MakeChunk(st.chunkId, st.currentSegments))
    ELSE st.chunks

groupSegmentsIntoChunks(segs) ==
    IF Len(segs) = 0 THEN <<>>
    ELSE GroupRemainder(GroupLoop(segs, 1, GroupInit))

GrouperIdle ==
    /\ segments = <<>>
    /\ groupPc = "idle"
    /\ groupResult = <<>>

RetryIdle ==
    /\ maxRetries = 0
    /\ attempt = 0
    /\ retryPc = "idle"
    /\ retryResult = <<>>
    /\ retryThrown = <<>>
    /\ retryTrace = <<>>
    /\ fnCalls = 0
    /\ outstanding = 0

PipeIdle ==
    /\ chunks = <<>>
    /\ pipePc = "idle"
    /\ i = 0
    /\ translatedChunks = <<>>
    /\ previousTranslations = <<>>
    /\ translatedText = <<>>
    /\ request = <<>>
    /\ pipeResult = <<>>
    /\ pipeError = <<>>
    /\ events = <<>>
    /\ ttsFailed = {}
    /\ serviceAttempts = 0

AnalyzeIdle ==
    /\ analyzePc = "idle"
    /\ analyzeResult = <<>>
    /\ analyzeThrown = <<>>

NoTimer == 0

NoPoll == [polls |-> 0, active |-> 0, notified |-> FALSE, changed |-> FALSE]

NoCall == [op |-> "none", arg |-> 0, wasPlaying |-> FALSE]

\* audioSyncService.ts lines 13-30: the engine as the constructor leaves it
EngineIdle ==
    /\ engineChunks = <<>>
    /\ audioBuffers = <<>>
    /\ scheduledSources = <<>>
    /\ sources = {}
    /\ isPlaying = FALSE
    /\ playbackStartTime = 0
    /\ videoTimeOffset = 0
    /\ onSubtitleChange = FALSE
    /\ subtitleInterval = NoTimer
    /\ timers = <<>>
    /\ now = 0
    /\ closed = FALSE
    /\ closeRejected = FALSE
    /\ playCount = 0
    /\ lastPlay = [t |-> 0, at |-> 0]
    /\ lastCall = NoCall
    /\ lastPoll = NoPoll

\* constants.ts lines 29-35; the language fields and showSubtitles are left out
DEFAULT_SETTINGS == [selectedVoiceId |-> "cloned-v1", censureExplicit |-> FALSE]

NoStep == [op |-> "none", run |-> 0, aborted |-> FALSE]

\* part_000 lines 19-34: the state of App when it mounts
AppMounted ==
    /\ urlInput = ""
    /\ videoId = <<>>
    /\ videoMetadata = <<>>
    /\ settings = DEFAULT_SETTINGS
    /\ processingState = "IDLE"
    /\ showContentWarning = FALSE
    /\ errorMessage = <<>>
    /\ isFetchingPreview = FALSE
    /\ contextResult = <<>>
    /\ transcriptChunks = <<>>
    /\ appTranslatedChunks = <<>>
    /\ translationProgress = <<>>
    /\ appTasks = {}
    /\ started = 0
    /\ failedRuns = {}
    /\ appLast = NoStep

AppIdle ==
    /\ apiKey = TRUE
    /\ AppMounted

\* no event has reached the component: mounted tells whether its effects
\* have run, input is "none", "state" or "seek", state is the code of the
\* last state-change event, playback is <<code>> for the last event among
\* playing, paused and ended, time is what the player or the seek gave
NoInput ==
    [ mounted |-> FALSE, input |-> "none", state |-> 0, playback |-> <<>>,
      time |-> 0 ]

\* part_006 lines 22-29: the component before its effects have run
PlayerUnmounted ==
    /\ playerIsPlaying = FALSE
    /\ playerLast = NoInput

PlayerIdle ==
    /\ playerChunks = <<>>
    /\ PlayerUnmounted

GrouperInit ==
    /\ IsSegmentInput(segments)
    /\ groupPc = "call"
    /\ groupResult = <<>>
    /\ RetryIdle
    /\ PipeIdle
    /\ AnalyzeIdle
    /\ EngineIdle
    /\ AppIdle
    /\ PlayerIdle

CallGroup ==
    /\ groupPc = "call"
    /\ groupResult' = groupSegmentsIntoChunks(segments)
    /\ groupPc' = "done"
    /\ UNCHANGED segments
    /\ UNCHANGED <<retryVars, pipeVars, analyzeVars, engineVars, appVars, playerVars>>

GrouperNext == CallGroup

SpecGrouper == GrouperInit /\ [][GrouperNext]_vars

-----------------------------------------------------------------------------
(* Claims about groupSegmentsIntoChunks *)

ChunkSegments(cs) == ConcatAll([k \in 1..Len(cs) |-> cs[k].segments])

\* C1: the concatenation of the returned chunks' segment lists, in chunk
\* order, is exactly the input sequence: no fragment is split, dropped,
\* duplicated or reordered, and an empty input gives an empty chunk list.
C1_ConcatenationIsInput ==
    groupPc = "done" =>
        /\ ChunkSegments(groupResult) = segments
        /\ (Len(segments) = 0 => groupResult = <<>>)
        /\ \A k \in 1..Len(groupResult) : Len(groupResult[k].segments) > 0

\* A call that closed a chunk of several fragments in the loop and left a
\* remainder for the final chunk.
C1_Witness ==
    /\ groupPc = "done"
    /\ Len(segments) = 3
    /\ Len(groupResult) = 2
    /\ Len(groupResult[1].segments) = 2

RECURSIVE SumDurations(_)
SumDurations(segs) ==
    IF Len(segs) = 0 THEN 0
    ELSE Head(segs).duration + SumDurations(Tail(segs))

\* C12: every returned chunk other than the last one has an accumulated
\* fragment duration of at least CHUNK_MIN_DURATION_SEC (3 s); only the final
\* chunk may be shorter.
C12_NonFinalChunksReachMin ==
    groupPc = "done" =>
        \A k \in 1..(Len(groupResult) - 1) :
            SumDurations(groupResult[k].segments) >= Sec(CHUNK_MIN_DURATION_SEC)

\* A call that closed a chunk in the loop and whose final chunk is shorter
\* than the minimum.
C12_Witness ==
    /\ groupPc = "done"
    /\ Len(groupResult) = 2
    /\ SumDurations(groupResult[1].segments) >= Sec(CHUNK_MIN_DURATION_SEC)
    /\ SumDurations(groupResult[2].segments) < Sec(CHUNK_MIN_DURATION_SEC)

\* C13 as stated: every returned chunk has startTime < endTime, whatever the
\* fragment sequence.
C13_StartBeforeEnd ==
    groupPc = "done" =>
        \A k \in 1..Len(groupResult) :
            groupResult[k].startTime < groupResult[k].endTime

OrderedByOffset(segs) ==
    \A k \in 1..(Len(segs) - 1) : segs[k].offset <= segs[k + 1].offset

PositiveDurations(segs) ==
    \A k \in 1..Len(segs) : segs[k].duration > 0

\* C13 amended: for fragment sequences ordered by offset whose fragments all
\* have a positive duration, every returned chunk has startTime < endTime.
C13_StartBeforeEndPositive ==
    (groupPc = "done" /\ OrderedByOffset(segments) /\ PositiveDurations(segments)) =>
        \A k \in 1..Len(groupResult) :
            groupResult[k].startTime < groupResult[k].endTime

\* Overlapping fragments of positive duration grouped into two chunks, the
\* last of them a single fragment.
C13_Witness ==
    /\ groupPc = "done"
    /\ PositiveDurations(segments)
    /\ Len(segments) = 3
    /\ segments[2].offset < segments[1].offset + segments[1].duration
    /\ Len(groupResult) = 2
    /\ Len(groupResult[2].segments) = 1

\* The positions of the input after which a chunk of the result ends.
Boundaries(cs) ==
    { Len(ChunkSegments(SubSeq(cs, 1, m))) : m \in 1..Len(cs) }

\* The position at which the running chunk of position k began.
RunStart(cs, k) ==
    LET before == { b \in Boundaries(cs) : b < k }
    IN  IF before = {} THEN 1
        ELSE 1 + CHOOSE b \in before : \A c \in before : c <= b

Accumulated(cs, segs, k) == SumDurations(SubSeq(segs, RunStart(cs, k), k))

\* The closing condition in the words of C14.
ClosesAfter(cs, segs, k) ==
    \/ Accumulated(cs, segs, k) >= Sec(15)
    \/ /\ Accumulated(cs, segs, k) >= Sec(3)
       /\ LET t == Trim(segs[k].text)
          IN  Len(t) > 0 /\ t[Len(t)] \in {".", "!", "?", ";", ":"}

\* C14: the running chunk is closed right after a fragment is added if and
\* only if the accumulated duration is >= 15 s, or it is >= 3 s and the
\* fragment's trimmed text ends in one of . ! ? ; : (after the last fragment
\* the remainder is emitted in any case); a fragment of >= 15 s that begins a
\* chunk is a chunk by itself; and the fragments 2 s "Hello there.", 2.5 s
\* "How are you", 1.5 s "today?" give one chunk spanning [0, 6].
C14_ClosesIffCondition ==
    groupPc = "done" =>
        /\ \A k \in 1..(Len(segments) - 1) :
              (k \in Boundaries(groupResult)) <=> ClosesAfter(groupResult, segments, k)
        /\ \A k \in 1..Len(segments) :
              ClosesAfter(groupResult, segments, k) => k \in Boundaries(groupResult)
        /\ \A k \in 1..Len(segments) :
              (segments[k].duration >= Sec(15) /\ RunStart(groupResult, k) = k) =>
                  \E m \in 1..Len(groupResult) : groupResult[m].segments = <<segments[k]>>
        /\ segments = ExampleSegments =>
              /\ Len(groupResult) = 1
              /\ groupResult[1].startTime = 0
              /\ groupResult[1].endTime = Sec(6)
              /\ groupResult[1].segments = ExampleSegments

\* The example of the specification, grouped.
C14_Witness ==
    /\ groupPc = "done"
    /\ segments = ExampleSegments
    /\ Len(groupResult) = 1

\* C15: the returned chunks have ids 0, 1, 2, ... in output order, the final
\* partial chunk included; each chunk's startTime is its first fragment's
\* offset and its endTime is its last fragment's offset plus duration.
C15_DenseIdsAndTimes ==
    groupPc = "done" =>
        \A k \in 1..Len(groupResult) :
            /\ groupResult[k].id = k - 1
            /\ groupResult[k].startTime = groupResult[k].segments[1].offset
            /\ groupResult[k].endTime =
                  groupResult[k].segments[Len(groupResult[k].segments)].offset
                  + groupResult[k].segments[Len(groupResult[k].segments)].duration

\* Three chunks, the last one the partial remainder.
C15_Witness ==
    /\ groupPc = "done"
    /\ Len(groupResult) = 3
    /\ groupResult[3].id = 2
    /\ SumDurations(groupResult[3].segments) < Sec(CHUNK_MIN_DURATION_SEC)

-----------------------------------------------------------------------------
(* withRetry *)

DEFAULT_MAX_RETRIES == 3
DEFAULT_WAIT_SEC == 60
WAIT_MARGIN_SEC == 5

MaxRetriesArg == 3

\* An error thrown by fn.  status, code and httpErrorCode are 0 when the
\* error has no such property; message is the sequence of the words of
\* error.message (<<>> when there is none).
Err(status, code, http, message) ==
    [status |-> status, code |-> code, httpErrorCode |-> http, message |-> message]

ErrStatus429    == Err(429, 0, 0, <<"Too", "Many", "Requests">>)
ErrCode429      == Err(0, 429, 0, <<>>)
ErrExhausted    == Err(0, 0, 0, <<"RESOURCE_EXHAUSTED", "Retry", "in", "7">>)
ErrMessage429   == Err(503, 0, 0, <<"upstream", "429">>)
ErrInternal     == Err(500, 0, 429, <<"internal">>)
ErrNetwork      == Err(0, 0, 0, <<"network", "retry", "in", "7">>)

MaxRetriesExceeded == Err(0, 0, 0, <<"Max", "retries", "exceeded">>)

ErrorPool == {ErrStatus429, ErrCode429, ErrExhausted, ErrMessage429,
              ErrInternal, ErrNetwork}

ValuePool == {"v1", "v2"}

Ok(v)     == [ok |-> TRUE, value |-> v]
Failed(e) == [ok |-> FALSE, error |-> e]

FnOutcomes == {Ok(v) : v \in ValuePool} \cup {Failed(e) : e \in ErrorPool}

\* a || b || c on numbers
FirstTruthy(a, b, c) == IF a # 0 THEN a ELSE IF b # 0 THEN b ELSE c

\* message.includes(word)
Includes(message, word) == \E k \in 1..Len(message) : message[k] = word

ToLower(w) == IF w = "Retry" THEN "retry" ELSE IF w = "In" THEN "in" ELSE w

IsDigits(w) == w \in {"7", "30"}

ParseInt(w) == IF w = "7" THEN 7 ELSE IF w = "30" THEN 30 ELSE 0

\* message.match(/retry in (\d+)/i): the positions of the matches
RetryMatches(message) ==
    { k \in 1..(Len(message) - 2) :
        /\ ToLower(message[k]) = "retry"
        /\ ToLower(message[k + 1]) = "in"
        /\ IsDigits(message[k + 2]) }

\* lines 18-19
IsRateLimit(error) ==
    LET status == FirstTruthy(error.status, error.code, error.httpErrorCode)
    IN  \/ status = 429
        \/ Includes(error.message, "RESOURCE_EXHAUSTED")
        \/ Includes(error.message, "429")

\* lines 23-24
WaitSec(error) ==
    LET retryMatch == RetryMatches(error.message)
    IN  IF retryMatch # {}
        THEN ParseInt(error.message[
                 (CHOOSE k \in retryMatch : \A j \in retryMatch : k <= j) + 2])
             + WAIT_MARGIN_SEC
        ELSE DEFAULT_WAIT_SEC

ShouldRetryOffByOne(error, att, max) == IsRateLimit(error) /\ att < max - 1

ShouldRetryAnyError(error, att, max) == att < max

\* line 21
ShouldRetry(error, att, max) == IsRateLimit(error) /\ att < max

LoopContinuesStrict(att, max) == att < max

\* line 14: the loop condition
LoopContinues(att, max) == att <= max

\* lines 14-16, 32: the loop is entered (or re-entered) with attempt = att
\* after calls invocations of fn: fn is invoked once more, or the loop ends
\* and line 32 throws.
RetryLoopHead(att, calls, max) ==
    /\ attempt' = att
    /\ IF LoopContinues(att, max)
       THEN /\ retryPc' = "awaitFn"
            /\ fnCalls' = calls + 1
            /\ outstanding' = outstanding + 1
            /\ retryThrown' = <<>>
       ELSE /\ retryPc' = "raised"
            /\ fnCalls' = calls
            /\ outstanding' = outstanding
            /\ retryThrown' = <<MaxRetriesExceeded>>

\* line 13: withRetry(fn, max) is called
WithRetryEnter(max) ==
    /\ maxRetries' = max
    /\ retryResult' = <<>>
    /\ retryTrace' = <<>>
    /\ RetryLoopHead(0, 0, max)

AttemptEvent(outcome) == [ev |-> "attempt", out |-> outcome]
SleepEvent(sec)       == [ev |-> "sleep", sec |-> sec]

\* lines 16-30: the promise of fn settles with outcome
FnSettle(outcome) ==
    /\ retryPc = "awaitFn"
    /\ outstanding' = outstanding - 1
    /\ IF outcome.ok
       THEN /\ retryPc' = "returned"
            /\ retryResult' = <<outcome.value>>
            /\ retryTrace' = Append(retryTrace, AttemptEvent(outcome))
            /\ UNCHANGED retryThrown
       ELSE IF ShouldRetry(outcome.error, attempt, maxRetries)
       THEN /\ retryPc' = "sleeping"
            /\ retryTrace' = retryTrace \o
                   <<AttemptEvent(outcome), SleepEvent(WaitSec(outcome.error))>>
            /\ UNCHANGED <<retryResult, retryThrown>>
       ELSE /\ retryPc' = "raised"
            /\ retryThrown' = <<outcome.error>>
            /\ retryTrace' = Append(retryTrace, AttemptEvent(outcome))
            /\ UNCHANGED retryResult
    /\ UNCHANGED <<maxRetries, attempt, fnCalls>>

SleepEndsSameAttempt ==
    /\ retryPc = "sleeping"
    /\ RetryLoopHead(attempt, fnCalls, maxRetries)
    /\ UNCHANGED <<maxRetries, retryResult, retryTrace>>

\* lines 26-27, 14: the timer of the backoff sleep fires; continue
SleepEnds ==
    /\ retryPc = "sleeping"
    /\ RetryLoopHead(attempt + 1, fnCalls, maxRetries)
    /\ UNCHANGED <<maxRetries, retryResult, retryTrace>>

\* withRetry called on its own, with an operation whose outcomes are free
RetryCall ==
    /\ retryPc = "idle"
    /\ \E max \in 0..MaxRetriesArg : WithRetryEnter(max)
    /\ UNCHANGED <<grouperVars, engineVars, pipeVars, analyzeVars, appVars, playerVars>>

RetryFnSettles ==
    /\ \E outcome \in FnOutcomes : FnSettle(outcome)
    /\ UNCHANGED <<grouperVars, engineVars, pipeVars, analyzeVars, appVars, playerVars>>

RetrySleepEnds ==
    /\ SleepEnds
    /\ UNCHANGED <<grouperVars, engineVars, pipeVars, analyzeVars, appVars, playerVars>>

RetryInit ==
    /\ GrouperIdle
    /\ RetryIdle
    /\ PipeIdle
    /\ AnalyzeIdle
    /\ EngineIdle
    /\ AppIdle
    /\ PlayerIdle

RetryNext == RetryCall \/ RetryFnSettles \/ RetrySleepEnds

SpecRetry == RetryInit /\ [][RetryNext]_vars

-----------------------------------------------------------------------------
(* Claims about withRetry *)

Attempts == SelectSeq(retryTrace, LAMBDA e : e.ev = "attempt")
Sleeps   == SelectSeq(retryTrace, LAMBDA e : e.ev = "sleep")

RateLimited(e) == e.ev = "attempt" /\ ~e.out.ok /\ IsRateLimit(e.out.error)
OtherError(e)  == e.ev = "attempt" /\ ~e.out.ok /\ ~IsRateLimit(e.out.error)
Succeeded(e)   == e.ev = "attempt" /\ e.out.ok

\* the trace is attempt, sleep, attempt, sleep, ..., attempt
Alternates(trace) ==
    \A k \in 1..Len(trace) :
        trace[k].ev = (IF k % 2 = 1 THEN "attempt" ELSE "sleep")

\* fn failed with a rate-limit error in each of its first k attempts
FailsRateLimited(k) ==
    /\ Len(Attempts) >= k
    /\ \A j \in 1..k : RateLimited(Attempts[j])

AllRateLimited == \A j \in 1..Len(Attempts) : RateLimited(Attempts[j])

\* C7: an operation that fails with a rate-limit error k times (k <=
\* maxRetries) and then succeeds makes withRetry return the success result
\* after exactly k + 1 attempts, with one backoff sleep between consecutive
\* attempts; withRetry does not give up while at most maxRetries attempts
\* have failed with a rate-limit error.
C7_RetriesThenSucceeds ==
    \A k \in 0..maxRetries :
        /\ (FailsRateLimited(k) /\ Len(Attempts) = k) => retryPc # "raised"
        /\ (FailsRateLimited(k) /\ Len(Attempts) > k /\ Succeeded(Attempts[k + 1])) =>
              /\ retryPc = "returned"
              /\ retryResult = <<Attempts[k + 1].out.value>>
              /\ Len(Attempts) = k + 1
              /\ fnCalls = k + 1
              /\ Len(Sleeps) = k
              /\ Alternates(retryTrace)

\* two rate-limit failures, then success
C7_Witness ==
    /\ retryPc = "returned"
    /\ maxRetries >= 2
    /\ FailsRateLimited(2)
    /\ Len(Attempts) = 3
    /\ Len(Sleeps) = 2

\* C8: an operation that always fails with a rate-limit error is invoked
\* exactly maxRetries + 1 times before withRetry raises, never more and
\* never fewer.
C8_ExhaustsAfterMaxPlusOne ==
    AllRateLimited =>
        /\ fnCalls <= maxRetries + 1
        /\ retryPc = "raised" => (fnCalls = maxRetries + 1 /\ Len(Attempts) = fnCalls)
        /\ Len(Attempts) = maxRetries + 1 => retryPc = "raised"

\* maxRetries = 2: raised after three rate-limited attempts
C8_Witness ==
    /\ retryPc = "raised"
    /\ maxRetries = 2
    /\ AllRateLimited
    /\ fnCalls = 3
    /\ Len(Sleeps) = 2

\* withRetry gave up on a rate-limit error: the retries are exhausted
RetriesExhausted ==
    /\ retryPc = "raised"
    /\ Len(Attempts) > 0
    /\ RateLimited(Last(Attempts))

\* C9: when withRetry gives up because the retries are exhausted, it raises
\* the distinct "Max retries exceeded" failure, not the operation's own
\* rate-limit error.
C9_ExhaustionIsDistinct ==
    RetriesExhausted =>
        /\ retryThrown = <<MaxRetriesExceeded>>
        /\ retryThrown # <<Last(Attempts).out.error>>

\* C10: an error that is not a rate-limit error is never retried: it is
\* thrown to the caller by the attempt that met it, no sleep and no further
\* attempt follows; met at the first attempt, it propagates after exactly one
\* attempt and no sleep, whatever maxRetries is.
C10_OtherErrorsPropagate ==
    /\ \A j \in 1..Len(Attempts) :
          OtherError(Attempts[j]) =>
              /\ j = Len(Attempts)
              /\ retryPc = "raised"
              /\ retryThrown = <<Attempts[j].out.error>>
              /\ Last(retryTrace) = Attempts[j]
              /\ fnCalls = j
              /\ outstanding = 0
    /\ (Len(Attempts) > 0 /\ OtherError(Attempts[1])) =>
          (fnCalls = 1 /\ Sleeps = <<>>)

\* a non-rate-limit error at the first attempt although retries were allowed
C10_Witness ==
    /\ retryPc = "raised"
    /\ maxRetries = 3
    /\ Len(Attempts) = 1
    /\ OtherError(Attempts[1])
    /\ fnCalls = 1

-----------------------------------------------------------------------------
(* translateAllChunks, translateChunkText, generateTTS *)

RECENT_WINDOW == 3

MaxChunks == 2

\* The chunk lists the app passes: the output of groupSegmentsIntoChunks for
\* captions that each close a chunk.
ClosingSegmentKinds ==
    { [text |-> <<"a", ".">>, duration |-> Sec(CHUNK_MIN_DURATION_SEC)],
      [text |-> <<"b", "?", " ">>, duration |-> Sec(CHUNK_MAX_DURATION_SEC)] }

ChunkInputs ==
    { groupSegmentsIntoChunks(WithOffsets(ks, 0)) :
        ks \in SeqsUpTo(ClosingSegmentKinds, MaxChunks) }

\* response.text of the translation service (<<>>: undefined or empty)
ResponseTexts == { <<>>, <<" ", "x", " ">>, <<"y">> }

\* inlineData.data of the speech service: the length of the base64 string
\* (0: undefined or empty)
ResponseAudio == { 0, 8 }

\* the failures of the language and speech services
ServiceErrors == { ErrStatus429, ErrInternal }

TranslateOutcomes ==
    {Ok([text |-> t]) : t \in ResponseTexts} \cup {Failed(e) : e \in ServiceErrors}

TtsOutcomes ==
    {Ok([data |-> a]) : a \in ResponseAudio} \cup {Failed(e) : e \in ServiceErrors}

SliceLastWhole(s, n) == s

\* Array.prototype.slice(-n)
SliceLast(s, n) == IF Len(s) <= n THEN s ELSE SubSeq(s, Len(s) - n + 1, Len(s))

\* lines 130-162: the prompt of translateChunkText
TranslateRequest(chunk, previous) ==
    [ phase  |-> "translate",
      text   |-> chunk.fullText,
      recent |-> SliceLast(previous, RECENT_WINDOW) ]

\* lines 181-192: the request of generateTTS
TtsRequest(text) == [ phase |-> "tts", text |-> text ]

\* line 169: (response.text || "").trim()
TranslationOf(response) == Trim(response.text)

TtsResultOfUnmeasured(response) ==
    [ audioBase64 |-> response.data, duration |-> 0 ]

\* lines 194-204: audioBase64 is the length of the payload, 0 for null;
\* duration is counted in bytes of 16-bit 24 kHz mono PCM (1/48000 s)
TtsResultOf(response) ==
    LET audioBase64 == response.data
        byteLength  == (audioBase64 * 3) \div 4
    IN  [ audioBase64 |-> audioBase64,
          duration    |-> IF audioBase64 # 0 THEN byteLength ELSE 0 ]

\* line 207
TtsResultOnError == [ audioBase64 |-> 0, duration |-> 0 ]

PercentageOfChunks(a, b) == (200 * a + (b \div 2)) \div b

\* Math.round((a / b) * 100)
Percentage(a, b) == (200 * a + b) \div (2 * b)

\* lines 229-235, 241-247: the argument of onProgress
ProgressEvent(idx, phaseOffset, phase) ==
    [ ev           |-> "progress",
      currentChunk |-> idx + 1,
      totalChunks  |-> Len(chunks),
      percentage   |-> Percentage(idx * 2 + phaseOffset, Len(chunks) * 2),
      phase        |-> phase ]

\* lines 263-269
FinalProgressEvent ==
    [ ev           |-> "progress",
      currentChunk |-> Len(chunks),
      totalChunks  |-> Len(chunks),
      percentage   |-> 100,
      phase        |-> "generating_audio" ]

\* translateChunkText (line 237) or generateTTS (line 249) is called for idx
CallEvent(phase, idx) == [ ev |-> "call", phase |-> phase, index |-> idx ]

PhaseEventsCallFirst(idx, phaseOffset, phase, callee) ==
    <<CallEvent(callee, idx), ProgressEvent(idx, phaseOffset, phase)>>

\* lines 229-237, 241-249: a phase of chunk idx begins: onProgress, then the
\* call of translateChunkText or generateTTS
PhaseEvents(idx, phaseOffset, phase, callee) ==
    <<ProgressEvent(idx, phaseOffset, phase), CallEvent(callee, idx)>>

PushChunkFront(tcs, c) == <<c>> \o tcs

\* line 251: translatedChunks.push
PushChunk(tcs, c) == Append(tcs, c)

\* lines 251-259
MakeTranslatedChunk(chunk, text, tts) ==
    [ id             |-> chunk.id,
      startTime      |-> chunk.startTime,
      endTime        |-> chunk.endTime,
      originalText   |-> chunk.fullText,
      translatedText |-> text,
      audioBase64    |-> tts.audioBase64,
      audioDuration  |-> tts.duration ]

\* lines 225-237, 262-271: the loop test with i = idx; either chunk idx
\* enters its translate phase (progress, then the call of translateChunkText
\* and its first service call) or the final progress is reported and
\* translateAllChunks returns tcs.
LoopHead(idx, tcs, previous) ==
    /\ i' = idx
    /\ IF idx < Len(chunks)
       THEN /\ events' = events \o PhaseEvents(idx, 0, "translating", "translate")
            /\ request' = <<TranslateRequest(chunks[idx + 1], previous)>>
            /\ pipePc' = "translate"
            /\ pipeResult' = <<>>
            /\ WithRetryEnter(DEFAULT_MAX_RETRIES)
       ELSE /\ events' = Append(events, FinalProgressEvent)
            /\ request' = <<>>
            /\ pipePc' = "returned"
            /\ pipeResult' = <<tcs>>
            /\ UNCHANGED retryVars

\* lines 215-237: translateAllChunks is called
PipeCall ==
    /\ pipePc = "idle"
    /\ translatedChunks' = <<>>
    /\ previousTranslations' = <<>>
    /\ LoopHead(0, <<>>, <<>>)
    /\ UNCHANGED <<chunks, translatedText, pipeError, ttsFailed,
                   serviceAttempts>>
    /\ UNCHANGED <<grouperVars, engineVars, analyzeVars, appVars, playerVars>>

\* the pending service call of the current phase settles (withRetry) with
\* one of the outcomes the services can give
PipeFnSettlesWith(translateOutcomes, ttsOutcomes) ==
    /\ pipePc \in {"translate", "tts"}
    /\ \E outcome \in (IF pipePc = "translate" THEN translateOutcomes
                                               ELSE ttsOutcomes) :
           FnSettle(outcome)
    /\ serviceAttempts' = serviceAttempts + 1
    /\ UNCHANGED <<chunks, pipePc, i, translatedChunks, previousTranslations,
                   translatedText, request, pipeResult, pipeError, events,
                   ttsFailed>>
    /\ UNCHANGED <<grouperVars, engineVars, analyzeVars, appVars, playerVars>>

PipeFnSettles == PipeFnSettlesWith(TranslateOutcomes, TtsOutcomes)

\* the backoff sleep of the current phase ends (withRetry)
PipeSleepEnds ==
    /\ pipePc \in {"translate", "tts"}
    /\ SleepEnds
    /\ UNCHANGED <<grouperVars, engineVars, pipeVars, analyzeVars, appVars, playerVars>>

\* lines 164-169, 237-249: translateChunkText returns; the synthesize phase
\* of chunk i begins
TranslateReturns ==
    /\ pipePc = "translate"
    /\ retryPc = "returned"
    /\ LET text == TranslationOf(retryResult[1])
       IN  /\ translatedText' = text
           /\ previousTranslations' = Append(previousTranslations, text)
           /\ events' = events \o PhaseEvents(i, 1, "generating_audio", "tts")
           /\ request' = <<TtsRequest(text)>>
    /\ pipePc' = "tts"
    /\ WithRetryEnter(DEFAULT_MAX_RETRIES)
    /\ UNCHANGED <<chunks, i, translatedChunks, pipeResult, pipeError, ttsFailed,
                   serviceAttempts>>
    /\ UNCHANGED <<grouperVars, engineVars, analyzeVars, appVars, playerVars>>

TranslateThrowsSkipsChunk ==
    /\ pipePc = "translate"
    /\ retryPc = "raised"
    /\ LoopHead(i + 1, translatedChunks, previousTranslations)
    /\ UNCHANGED <<chunks, translatedChunks, previousTranslations,
                   translatedText, pipeError, ttsFailed,
                   serviceAttempts>>
    /\ UNCHANGED <<grouperVars, engineVars, analyzeVars, appVars, playerVars>>

\* lines 164, 237: withRetry throws in translateChunkText; nothing catches
\* the error and translateAllChunks rejects with it
TranslateThrows ==
    /\ pipePc = "translate"
    /\ retryPc = "raised"
    /\ pipePc' = "raised"
    /\ pipeError' = retryThrown
    /\ request' = <<>>
    /\ UNCHANGED <<chunks, i, translatedChunks, previousTranslations,
                   translatedText, pipeResult, events, ttsFailed,
                   serviceAttempts>>
    /\ UNCHANGED <<grouperVars, engineVars, retryVars, analyzeVars, appVars, playerVars>>

\* lines 194-204, 249-260: generateTTS returns the payload and its duration
TtsReturns ==
    /\ pipePc = "tts"
    /\ retryPc = "returned"
    /\ LET tcs == PushChunk(translatedChunks,
                         MakeTranslatedChunk(chunks[i + 1], translatedText,
                                             TtsResultOf(retryResult[1])))
       IN  /\ translatedChunks' = tcs
           /\ LoopHead(i + 1, tcs, previousTranslations)
    /\ UNCHANGED <<chunks, previousTranslations, translatedText, pipeError, ttsFailed,
                   serviceAttempts>>
    /\ UNCHANGED <<grouperVars, engineVars, analyzeVars, appVars, playerVars>>

TtsCatchesRethrows ==
    /\ pipePc = "tts"
    /\ retryPc = "raised"
    /\ pipePc' = "raised"
    /\ pipeError' = retryThrown
    /\ request' = <<>>
    /\ UNCHANGED <<chunks, i, translatedChunks, previousTranslations,
                   translatedText, pipeResult, events, ttsFailed,
                   serviceAttempts>>
    /\ UNCHANGED <<grouperVars, engineVars, retryVars, analyzeVars, appVars, playerVars>>

\* lines 205-208, 249-260: generateTTS catches the error of withRetry
TtsCatches ==
    /\ pipePc = "tts"
    /\ retryPc = "raised"
    /\ LET tcs == PushChunk(translatedChunks,
                         MakeTranslatedChunk(chunks[i + 1], translatedText,
                                             TtsResultOnError))
       IN  /\ translatedChunks' = tcs
           /\ LoopHead(i + 1, tcs, previousTranslations)
    /\ ttsFailed' = ttsFailed \cup {i}
    /\ UNCHANGED <<chunks, previousTranslations, translatedText, pipeError,
                   serviceAttempts>>
    /\ UNCHANGED <<grouperVars, engineVars, analyzeVars, appVars, playerVars>>

\* translateAllChunks is about to be called with one of the lists of inputs
PipeInitFrom(inputs) ==
    /\ GrouperIdle
    /\ RetryIdle
    /\ AnalyzeIdle
    /\ EngineIdle
    /\ AppIdle
    /\ PlayerIdle
    /\ chunks \in inputs
    /\ pipePc = "idle"
    /\ i = 0
    /\ translatedChunks = <<>>
    /\ previousTranslations = <<>>
    /\ translatedText = <<>>
    /\ request = <<>>
    /\ pipeResult = <<>>
    /\ pipeError = <<>>
    /\ events = <<>>
    /\ ttsFailed = {}
    /\ serviceAttempts = 0

PipeInit == PipeInitFrom(ChunkInputs)

PipeNext ==
    \/ PipeCall
    \/ PipeFnSettles
    \/ PipeSleepEnds
    \/ TranslateReturns
    \/ TranslateThrows
    \/ TtsReturns
    \/ TtsCatches

SpecPipeline == PipeInit /\ [][PipeNext]_vars

\* chunk lists of captions of one kind, of every length up to MaxChunks
UniformChunkInputs ==
    { groupSegmentsIntoChunks(WithOffsets(
          [k \in 1..n |-> [text |-> <<"a", ".">>,
                           duration |-> Sec(CHUNK_MIN_DURATION_SEC)]], 0)) :
        n \in 0..MaxChunks }

\* services that answer, rate limit or fail
RetryingTranslateOutcomes ==
    { Ok([text |-> <<"y">>]), Failed(ErrStatus429), Failed(ErrInternal) }

RetryingTtsOutcomes == { Ok([data |-> 8]), Failed(ErrStatus429) }

TerminationNext ==
    \/ PipeCall
    \/ PipeFnSettlesWith(RetryingTranslateOutcomes, RetryingTtsOutcomes)
    \/ PipeSleepEnds
    \/ TranslateReturns
    \/ TranslateThrows
    \/ TtsReturns
    \/ TtsCatches

\* every service call and every backoff sleep returns, and the caller of
\* translateAllChunks and its continuations get to run
SpecTermination ==
    PipeInitFrom(UniformChunkInputs) /\ [][TerminationNext]_vars
        /\ WF_vars(TerminationNext)

-----------------------------------------------------------------------------
(* Claims about translateAllChunks *)

N == Len(chunks)

ProgressEvents == SelectSeq(events, LAMBDA e : e.ev = "progress")

\* C2: when translateAllChunks returns, it returns one dubbed chunk per input
\* chunk, in input order, each with the id, startTime, endTime and source
\* text of the input chunk at the same position.
C2_OutputMatchesInput ==
    pipePc = "returned" =>
        /\ Len(pipeResult) = 1
        /\ Len(pipeResult[1]) = N
        /\ \A k \in 1..N :
              /\ pipeResult[1][k].id = chunks[k].id
              /\ pipeResult[1][k].startTime = chunks[k].startTime
              /\ pipeResult[1][k].endTime = chunks[k].endTime
              /\ pipeResult[1][k].originalText = chunks[k].fullText

\* a completed run over two different chunks
C2_Witness ==
    /\ pipePc = "returned"
    /\ N = 2
    /\ chunks[1].fullText # chunks[2].fullText
    /\ Len(pipeResult[1]) = 2

\* withRetry has thrown in the translate phase of chunk i
TranslateFailed == pipePc = "translate" /\ retryPc = "raised"

\* C3: a failure of the translate phase of a chunk (a non-rate-limit error,
\* or a rate-limit error that survives all retries) makes translateAllChunks
\* raise that error; it returns no dubbed chunks, and after the failure no
\* service call is made and no progress is reported (no final 100 % event).
C3_TranslateFailureIsFatal ==
    /\ [](pipePc = "raised" =>
            /\ pipeResult = <<>>
            /\ pipeError = retryThrown /\ pipeError # <<>>
            /\ outstanding = 0
            /\ retryPc = "raised"
            /\ Last(events) = CallEvent("translate", i))
    /\ [][ /\ TranslateFailed =>
                /\ pipePc' = "raised"
                /\ events' = events
                /\ fnCalls' = fnCalls
                /\ outstanding' = 0
           /\ pipePc = "raised" => UNCHANGED vars ]_vars

\* the translation of the second chunk failed with its retries exhausted
C3_Witness ==
    /\ pipePc = "raised"
    /\ i = 1
    /\ Len(translatedChunks) = 1
    /\ RetriesExhausted
    /\ fnCalls = DEFAULT_MAX_RETRIES + 1

\* withRetry has thrown in the synthesize phase of chunk i
TtsFailed == pipePc = "tts" /\ retryPc = "raised"

\* C4: a failure of the synthesize phase of chunk i does not abort the run:
\* chunk i is output with its translated text, no audio and audioDuration 0,
\* the run goes on with chunk i + 1 (or returns after the last chunk), and a
\* run that returns has every chunk in its output.
C4_TtsFailureIsLocal ==
    /\ [](\A k \in ttsFailed :
            /\ k < Len(translatedChunks)
            /\ translatedChunks[k + 1].id = chunks[k + 1].id
            /\ translatedChunks[k + 1].translatedText = previousTranslations[k + 1]
            /\ translatedChunks[k + 1].audioBase64 = 0
            /\ translatedChunks[k + 1].audioDuration = 0)
    /\ [](pipePc = "returned" =>
            /\ pipeResult = <<translatedChunks>>
            /\ Len(translatedChunks) = N)
    /\ [][ TtsFailed =>
             /\ ttsFailed' = ttsFailed \cup {i}
             /\ i' = i + 1
             /\ pipeError' = <<>>
             /\ IF i + 1 < N
                THEN /\ pipePc' = "translate"
                     /\ retryPc' = "awaitFn"
                     /\ request' = <<TranslateRequest(chunks[i + 2],
                                                      previousTranslations)>>
                ELSE pipePc' = "returned" ]_vars

\* the synthesis of the first chunk failed with its retries exhausted, and
\* the second chunk was translated and synthesized with audio
C4_Witness ==
    /\ pipePc = "returned"
    /\ N = 2
    /\ ttsFailed = {0}
    /\ pipeResult[1][1].audioBase64 = 0
    /\ pipeResult[1][1].translatedText # <<>>
    /\ pipeResult[1][2].audioBase64 # 0
    /\ pipeResult[1][2].audioDuration > 0

NonDecreasing(ps) ==
    \A k \in 1..(Len(ps) - 1) : ps[k].percentage <= ps[k + 1].percentage

\* C5: a run over N chunks that completes has called onProgress exactly
\* 2N + 1 times, with non-decreasing percentages, the last one being 100.
C5_ProgressCount ==
    /\ NonDecreasing(ProgressEvents)
    /\ pipePc = "returned" =>
          /\ Len(ProgressEvents) = 2 * N + 1
          /\ Last(ProgressEvents).percentage = 100

\* a completed run over two chunks: five progress events
C5_Witness ==
    /\ pipePc = "returned"
    /\ N = 2
    /\ Len(ProgressEvents) = 5
    /\ ProgressEvents[4].percentage = 75

\* progress(translating, k), translate(k), progress(synthesizing, k),
\* synthesize(k) for k = 0 .. n - 1, then the final progress
RECURSIVE ExpectedEvents(_, _)
ExpectedEvents(k, n) ==
    IF k >= n THEN <<FinalProgressEvent>>
    ELSE <<ProgressEvent(k, 0, "translating"), CallEvent("translate", k),
           ProgressEvent(k, 1, "generating_audio"), CallEvent("tts", k)>>
         \o ExpectedEvents(k + 1, n)

IsPrefix(s, t) == Len(s) <= Len(t) /\ s = SubSeq(t, 1, Len(s))

\* C6: at most one service call is outstanding at any time, the events occur
\* in the order progress(translating, i), translate(i), progress(synthesizing,
\* i), synthesize(i), then the same for i + 1, and every service call of a
\* phase (first attempt or retry) is made after the progress event of that
\* phase and before the next progress event.
C6_SequentialOrder ==
    /\ outstanding <= 1
    /\ IsPrefix(events, ExpectedEvents(0, N))
    /\ outstanding = 1 =>
          /\ pipePc \in {"translate", "tts"}
          /\ Last(events) = CallEvent(pipePc, i)
          /\ Len(request) = 1 /\ request[1].phase = pipePc
    /\ pipePc = "returned" => events = ExpectedEvents(0, N)

\* a retried service call of the synthesize phase of the second chunk
C6_Witness ==
    /\ pipePc = "tts"
    /\ i = 1
    /\ outstanding = 1
    /\ attempt = 2
    /\ Len(events) = 8

-----------------------------------------------------------------------------
(* analyzeContext *)

\* a response that follows the response schema
FullObject ==
    [ detectedLanguage   |-> "es",
      detectedGender     |-> "female",
      hasExplicitContent |-> TRUE,
      contextSummary     |-> "Un tutoriel",
      tone               |-> "Humoristique",
      subjectMatter      |-> "Cuisine",
      targetAudience     |-> "Gamers",
      languageRegister   |-> "Familier",
      culturalReferences |-> "Memes",
      keyTerminology     |-> <<"umami">> ]

\* a response that leaves fields out or empty
PartialObject ==
    [ hasExplicitContent |-> FALSE,
      contextSummary     |-> "Un tutoriel",
      tone               |-> "",
      keyTerminology     |-> <<>> ]

EmptyObject == [f \in {} |-> ""]

\* response.text: "" stands for a response without text
AnalysisTexts == { "", "{}", "null", "{full}", "{partial}", "{tone: Hum" }

AnalyzeOutcomes ==
    {Ok([text |-> t]) : t \in AnalysisTexts} \cup {Failed(e) : e \in ErrorPool}

\* JSON.parse: a SyntaxError for a text that is not JSON
JsonParse(text) ==
    CASE text = "{}"        -> [threw |-> FALSE, isNull |-> FALSE, object |-> EmptyObject]
      [] text = "null"      -> [threw |-> FALSE, isNull |-> TRUE,  object |-> EmptyObject]
      [] text = "{full}"    -> [threw |-> FALSE, isNull |-> FALSE, object |-> FullObject]
      [] text = "{partial}" -> [threw |-> FALSE, isNull |-> FALSE, object |-> PartialObject]
      [] OTHER              -> [threw |-> TRUE,  isNull |-> FALSE, object |-> EmptyObject]

\* result.field || default, for a string field
StringOr(object, field, default) ==
    IF field \in DOMAIN object /\ object[field] # "" THEN object[field] ELSE default

\* lines 89-100: the profile built from the parsed response
ProfileOf(result) ==
    [ detectedLanguage   |-> StringOr(result, "detectedLanguage", "en"),
      detectedGender     |-> StringOr(result, "detectedGender", "male"),
      hasExplicitContent |-> ("hasExplicitContent" \in DOMAIN result
                                /\ result.hasExplicitContent),
      contextSummary     |-> StringOr(result, "contextSummary", "Contenu général"),
      tone               |-> StringOr(result, "tone", "Neutre"),
      subjectMatter      |-> StringOr(result, "subjectMatter", "Non déterminé"),
      targetAudience     |-> StringOr(result, "targetAudience", "Grand public"),
      languageRegister   |-> StringOr(result, "languageRegister", "Courant"),
      culturalReferences |-> StringOr(result, "culturalReferences", "Aucune"),
      keyTerminology     |-> IF "keyTerminology" \in DOMAIN result
                             THEN result.keyTerminology ELSE <<>> ]

\* lines 103-114: the profile the catch block returns
FallbackProfile ==
    [ detectedLanguage   |-> "en",
      detectedGender     |-> "male",
      hasExplicitContent |-> FALSE,
      contextSummary     |-> "Analyse indisponible",
      tone               |-> "Neutre",
      subjectMatter      |-> "Non déterminé",
      targetAudience     |-> "Grand public",
      languageRegister   |-> "Courant",
      culturalReferences |-> "Aucune",
      keyTerminology     |-> <<>> ]

SyntaxError == Err(0, 0, 0, <<"Unexpected", "token">>)
TypeError   == Err(0, 0, 0, <<"Cannot", "read", "properties", "of", "null">>)

Returns(v) == [threw |-> FALSE, value |-> v]
Throws(e)  == [threw |-> TRUE, error |-> e]

\* lines 88-100: the rest of the try block once withRetry has returned
AnalyzeTry(response) ==
    LET parsed == JsonParse(IF response.text # "" THEN response.text ELSE "{}")
    IN  IF parsed.threw THEN Throws(SyntaxError)
        ELSE IF parsed.isNull THEN Throws(TypeError)
        ELSE Returns(ProfileOf(parsed.object))

AnalyzeCatchRethrows(error) == Throws(error)

\* lines 101-115: the catch block
AnalyzeCatch(error) == Returns(FallbackProfile)

\* analyzeContext settles with the completion c
AnalyzeSettle(c) ==
    IF c.threw
    THEN /\ analyzePc' = "raised"
         /\ analyzeThrown' = <<c.error>>
         /\ UNCHANGED analyzeResult
    ELSE /\ analyzePc' = "returned"
         /\ analyzeResult' = <<c.value>>
         /\ UNCHANGED analyzeThrown

\* lines 41-43: analyzeContext is called and awaits withRetry
AnalyzeCall ==
    /\ analyzePc = "idle"
    /\ analyzePc' = "await"
    /\ WithRetryEnter(DEFAULT_MAX_RETRIES)
    /\ UNCHANGED <<analyzeResult, analyzeThrown>>
    /\ UNCHANGED <<grouperVars, engineVars, pipeVars, appVars, playerVars>>

AnalyzeFnSettles ==
    /\ analyzePc = "await"
    /\ \E outcome \in AnalyzeOutcomes : FnSettle(outcome)
    /\ UNCHANGED <<grouperVars, engineVars, pipeVars, analyzeVars, appVars, playerVars>>

AnalyzeSleepEnds ==
    /\ analyzePc = "await"
    /\ SleepEnds
    /\ UNCHANGED <<grouperVars, engineVars, pipeVars, analyzeVars, appVars, playerVars>>

\* lines 43, 88-100: withRetry returns the response
AnalyzeReturns ==
    /\ analyzePc = "await"
    /\ retryPc = "returned"
    /\ LET body == AnalyzeTry(retryResult[1])
       IN  AnalyzeSettle(IF body.threw THEN AnalyzeCatch(body.error) ELSE body)
    /\ UNCHANGED <<grouperVars, engineVars, retryVars, pipeVars, appVars, playerVars>>

\* lines 43, 101-115: withRetry throws
AnalyzeCatches ==
    /\ analyzePc = "await"
    /\ retryPc = "raised"
    /\ AnalyzeSettle(AnalyzeCatch(retryThrown[1]))
    /\ UNCHANGED <<grouperVars, engineVars, retryVars, pipeVars, appVars, playerVars>>

AnalyzeInit ==
    /\ GrouperIdle
    /\ RetryIdle
    /\ PipeIdle
    /\ AnalyzeIdle
    /\ EngineIdle
    /\ AppIdle
    /\ PlayerIdle

AnalyzeNext ==
    \/ AnalyzeCall
    \/ AnalyzeFnSettles
    \/ AnalyzeSleepEnds
    \/ AnalyzeReturns
    \/ AnalyzeCatches

SpecAnalyze == AnalyzeInit /\ [][AnalyzeNext]_vars

-----------------------------------------------------------------------------
(* Claims about analyzeContext *)

ServiceFailed == retryPc = "raised"

UnparsableResponse ==
    /\ retryPc = "returned"
    /\ retryResult[1].text # ""
    /\ JsonParse(retryResult[1].text).threw

IsDefaultProfile(p) ==
    /\ p.tone = "Neutre"
    /\ p.hasExplicitContent = FALSE
    /\ p.targetAudience = "Grand public"
    /\ p.keyTerminology = <<>>

\* C11: analyzeContext never throws; when the service call fails (an error
\* that is not retried, or retries exhausted) or the response text cannot be
\* parsed, it returns the default profile: tone "Neutre", hasExplicitContent
\* false, targetAudience "Grand public", keyTerminology empty.
C11_AnalyzeNeverFails ==
    /\ analyzePc # "raised"
    /\ analyzeThrown = <<>>
    /\ (analyzePc = "returned" /\ retryPc \in {"returned", "raised"}) =>
          /\ Len(analyzeResult) = 1
          /\ (ServiceFailed \/ UnparsableResponse) =>
                IsDefaultProfile(analyzeResult[1])

\* analyzeContext has returned after the retries of withRetry ran out.
C11_Witness ==
    /\ analyzePc = "returned"
    /\ retryPc = "raised"
    /\ attempt = DEFAULT_MAX_RETRIES
    /\ fnCalls = DEFAULT_MAX_RETRIES + 1
    /\ IsRateLimit(retryThrown[1])
    /\ analyzeResult = <<FallbackProfile>>

-----------------------------------------------------------------------------
(* AudioSyncEngine *)

MaxPlays == 2
MaxClock == 2

\* bytes of 16-bit 24 kHz mono PCM in half a second
PCM_BYTES_PER_TICK == 24000

PcmBytes(ticks) == ticks * PCM_BYTES_PER_TICK

\* a base64 payload (its length) that decodes to ticks half seconds of audio
Payload(ticks) == (PcmBytes(ticks) * 4) \div 3

\* a payload of three bytes, which is not a whole number of 16-bit samples
OddPayload == 4

EngineChunk(id, startTime, endTime, text, audioBase64) ==
    MakeTranslatedChunk(
        [id |-> id, startTime |-> startTime, endTime |-> endTime,
         fullText |-> <<"o">>],
        text, TtsResultOf([data |-> audioBase64]))

\* one chunk at 10-13 s with three seconds of audio
ExampleChunks ==
    << EngineChunk(0, Sec(10), Sec(13), <<"x">>, Payload(Sec(3))) >>

\* a chunk at 5-6 s with audio, a gap, a silent chunk at 7-8 s and a chunk at
\* 8-9 s whose payload does not decode
GapChunks ==
    << EngineChunk(0, Sec(5), Sec(6), <<"a">>, Payload(Sec(1))),
       EngineChunk(1, Sec(7), Sec(8), <<"b">>, 0),
       EngineChunk(2, Sec(8), Sec(9), <<"c">>, OddPayload) >>

\* two silent chunks whose intervals overlap between 6 s and 7 s, as chunks
\* grouped from overlapping captions do
OverlapChunks ==
    << EngineChunk(0, Sec(5), Sec(7), <<"a">>, 0),
       EngineChunk(1, Sec(6), Sec(8), <<"b">>, 0) >>

\* a chunk listed before a longer chunk that holds its whole interval
NestedChunks ==
    << EngineChunk(0, Sec(6), Sec(7), <<"a">>, 0),
       EngineChunk(1, Sec(5), Sec(8), <<"b">>, 0) >>

EngineChunkLists == { ExampleChunks, GapChunks }

\* the lists getSubtitleAt is asked about
SubtitleChunkLists ==
    { <<>>, ExampleChunks, GapChunks, OverlapChunks, NestedChunks }

\* the video times handed to play and seekTo
VideoTimes == { Sec(5), Sec(11), Sec(13) }

\* geminiService.ts lines 306-325: the duration of the decoded buffer in PCM
\* bytes; new Int16Array throws on an odd number of bytes
DecodeAudio(base64) ==
    LET len == (base64 * 3) \div 4
    IN  IF len % 2 = 1 THEN Throws(Err(0, 0, 0, <<"RangeError">>))
        ELSE Returns(len)

DecodedBuffersUnchecked(cs) ==
    LET present == { k \in 1..Len(cs) : cs[k].audioBase64 # 0 }
    IN  [ id \in { cs[k].id : k \in present } |->
            LET k == CHOOSE j \in present : cs[j].id = id
            IN  (cs[k].audioBase64 * 3) \div 4 ]

\* lines 39-48: the buffers loadChunks leaves for the chunks cs
DecodedBuffers(cs) ==
    LET decodable == { k \in 1..Len(cs) :
                         cs[k].audioBase64 # 0
                         /\ ~DecodeAudio(cs[k].audioBase64).threw }
        ids == { cs[k].id : k \in decodable }
    IN  [ id \in ids |->
            LET k == CHOOSE j \in decodable :
                        cs[j].id = id
                        /\ \A m \in decodable : cs[m].id = id => m <= j
            IN  DecodeAudio(cs[k].audioBase64).value ]

\* a source node that is playing or waiting for its start time
Audible(s) ==
    /\ s.state = "started"
    /\ \/ now < s.when
       \/ PcmBytes(now - s.when + s.offset) < s.duration

\* the ended event of s is due: it was stopped, or it has played to its end
EndedDue(s) ==
    \/ s.state = "stopped"
    \/ s.state = "started" /\ ~Audible(s)

Held(s, scheduled) ==
    s.chunk \in DOMAIN scheduled /\ scheduled[s.chunk] = s.gen

\* A node that was never started and that the map no longer holds is garbage.
Collect(srcs, scheduled) ==
    { s \in srcs : s.state # "unstarted" \/ Held(s, scheduled) }

\* lines 181-190: source.stop() on every held node (an exception for a node
\* that was never started is swallowed), then the map is cleared
StopAllSources ==
    Collect({ IF Held(s, scheduledSources) /\ s.state = "started"
              THEN [s EXCEPT !.state = "stopped"] ELSE s : s \in sources }, <<>>)

MidChunkAtStart(chunk, fromVideoTime, at, gen) ==
    { [ chunk |-> chunk.id, gen |-> gen, when |-> at, offset |-> 0,
        duration |-> audioBuffers[chunk.id], state |-> "started" ] }

\* lines 85-90: a chunk in progress starts at once, at its in-buffer offset
MidChunk(chunk, fromVideoTime, at, gen) ==
    LET offset == fromVideoTime - chunk.startTime
    IN  { [ chunk |-> chunk.id, gen |-> gen, when |-> at, offset |-> offset,
            duration |-> audioBuffers[chunk.id],
            state |-> IF PcmBytes(offset) < audioBuffers[chunk.id]
                      THEN "started" ELSE "unstarted" ] }

\* lines 68-93: the source node play creates for chunk, if any
NewSource(chunk, fromVideoTime, at, gen) ==
    LET timeUntilChunk == chunk.startTime - fromVideoTime
    IN  IF chunk.id \notin DOMAIN audioBuffers THEN {}
        ELSE IF ~(PcmBytes(timeUntilChunk) >= -chunk.audioDuration) THEN {}
        ELSE IF timeUntilChunk >= 0
        THEN { [ chunk |-> chunk.id, gen |-> gen, when |-> at + timeUntilChunk,
                 offset |-> 0, duration |-> audioBuffers[chunk.id],
                 state |-> "started" ] }
        ELSE MidChunk(chunk, fromVideoTime, at, gen)

NewSources(fromVideoTime, at, gen) ==
    UNION { NewSource(engineChunks[k], fromVideoTime, at, gen) :
              k \in 1..Len(engineChunks) }

Null == -1
Undefined == -2

\* lines 210-215
StopSubtitleTracking ==
    /\ timers' = [id \in DOMAIN timers \ {subtitleInterval} |-> timers[id]]
    /\ subtitleInterval' = NoTimer

StartSubtitleTrackingKeepsOld(id) ==
    /\ timers' = [t \in DOMAIN timers \cup {id} |->
                     IF t = id THEN Null ELSE timers[t]]
    /\ subtitleInterval' = id

\* lines 192-197: the previous timer is cleared and a new one is set, whose
\* closure starts with lastSubtitleId = null
StartSubtitleTracking(id) ==
    /\ timers' = [t \in (DOMAIN timers \ {subtitleInterval}) \cup {id} |->
                     IF t = id THEN Null ELSE timers[t]]
    /\ subtitleInterval' = id

\* lines 55-99: the body of play(fromVideoTime)
PlayFrom(fromVideoTime) ==
    LET gen == playCount + 1
        created == NewSources(fromVideoTime, now, gen)
    IN  /\ sources' = StopAllSources \cup created
        /\ scheduledSources' = [id \in { s.chunk : s \in created } |-> gen]
        /\ isPlaying' = TRUE
        /\ playbackStartTime' = now
        /\ videoTimeOffset' = fromVideoTime
        /\ StartSubtitleTracking(gen)
        /\ playCount' = gen
        /\ lastPlay' = [t |-> fromVideoTime, at |-> now]
        /\ lastPoll' = NoPoll

Called(op, arg) == [op |-> op, arg |-> arg, wasPlaying |-> FALSE]

\* lines 35-49.  decodeAudio never waits for anything, so the awaits of the
\* loop are resumed as microtasks and no other call of the engine runs
\* before loadChunks is through.
LoadChunksFrom(lists) ==
    /\ ~closed
    /\ \E cs \in lists :
          /\ engineChunks' = cs
          /\ audioBuffers' = DecodedBuffers(cs)
    /\ UNCHANGED <<scheduledSources, sources, isPlaying, playbackStartTime,
                   videoTimeOffset, onSubtitleChange, subtitleInterval, timers,
                   now, closed, closeRejected, playCount, lastPlay, lastCall, lastPoll>>
    /\ UNCHANGED <<grouperVars, retryVars, pipeVars, analyzeVars, appVars, playerVars>>

LoadChunks == LoadChunksFrom(EngineChunkLists)

\* lines 55-99: the call play(t), on the engine's variables
PlayCall(t) ==
    /\ PlayFrom(t)
    /\ lastCall' = Called("play", t)
    /\ UNCHANGED <<engineChunks, audioBuffers, onSubtitleChange, now, closed,
                   closeRejected>>

\* lines 104-108: the call pause(), on the engine's variables
PauseCall ==
    /\ isPlaying' = FALSE
    /\ sources' = StopAllSources
    /\ scheduledSources' = <<>>
    /\ StopSubtitleTracking
    /\ lastCall' = Called("pause", 0)
    /\ lastPoll' = NoPoll
    /\ UNCHANGED <<engineChunks, audioBuffers, playbackStartTime,
                   videoTimeOffset, onSubtitleChange, now, closed,
                   closeRejected, playCount, lastPlay>>

\* lines 113-117: the call seekTo(v), on the engine's variables
SeekToCall(v) ==
    /\ IF isPlaying
       THEN PlayFrom(v)
       ELSE UNCHANGED <<sources, scheduledSources, isPlaying,
                        playbackStartTime, videoTimeOffset, subtitleInterval,
                        timers, playCount, lastPlay, lastPoll>>
    /\ lastCall' = [Called("seekTo", v) EXCEPT !.wasPlaying = isPlaying]
    /\ UNCHANGED <<engineChunks, audioBuffers, onSubtitleChange, now, closed,
                   closeRejected>>

\* lines 55-99: play is called, when the caller may call it and fewer than
\* max plays have been made
PlayIf(callable, max) ==
    /\ callable
    /\ playCount < max
    /\ \E t \in VideoTimes : PlayCall(t)
    /\ UNCHANGED <<grouperVars, retryVars, pipeVars, analyzeVars, appVars, playerVars>>

Play == PlayIf(~closed, MaxPlays)

\* lines 104-108
PauseIf(callable) ==
    /\ callable
    /\ PauseCall
    /\ UNCHANGED <<grouperVars, retryVars, pipeVars, analyzeVars, appVars, playerVars>>

Pause == PauseIf(~closed)

SeekToOffsetOnly ==
    /\ ~closed
    /\ \E v \in VideoTimes :
          /\ videoTimeOffset' = v
          /\ lastCall' = [Called("seekTo", v) EXCEPT !.wasPlaying = isPlaying]
    /\ UNCHANGED <<sources, scheduledSources, isPlaying, playbackStartTime,
                   subtitleInterval, timers, playCount, lastPlay, lastPoll>>
    /\ UNCHANGED <<engineChunks, audioBuffers, onSubtitleChange, now, closed, closeRejected>>
    /\ UNCHANGED <<grouperVars, retryVars, pipeVars, analyzeVars, appVars, playerVars>>

\* lines 113-117
SeekToIf(callable, max) ==
    /\ callable
    /\ isPlaying => playCount < max
    /\ \E v \in VideoTimes : SeekToCall(v)
    /\ UNCHANGED <<grouperVars, retryVars, pipeVars, analyzeVars, appVars, playerVars>>

SeekTo == SeekToIf(~closed, MaxPlays)

\* lines 129-131
OnSubtitle ==
    /\ ~closed
    /\ ~onSubtitleChange
    /\ onSubtitleChange' = TRUE
    /\ UNCHANGED <<engineChunks, audioBuffers, scheduledSources, sources,
                   isPlaying, playbackStartTime, videoTimeOffset,
                   subtitleInterval, timers, now, closed, closeRejected, playCount, lastPlay,
                   lastCall, lastPoll>>
    /\ UNCHANGED <<grouperVars, retryVars, pipeVars, analyzeVars, appVars, playerVars>>

\* line 176: audioContext.close() returns a promise, rejected when the
\* context is closed already; destroy does not wait for it
ContextClose(wasClosed) ==
    [threw |-> FALSE, promise |-> IF wasClosed THEN "rejected" ELSE "fulfilled"]

DestroyKeepsPoller ==
    /\ sources' = StopAllSources
    /\ scheduledSources' = <<>>
    /\ closed' = TRUE
    /\ closeRejected' = (closeRejected \/ ContextClose(closed).promise = "rejected")
    /\ lastPoll' = NoPoll
    /\ UNCHANGED <<engineChunks, audioBuffers, isPlaying, playbackStartTime,
                   videoTimeOffset, onSubtitleChange, subtitleInterval, timers,
                   now, playCount, lastPlay, lastCall>>
    /\ UNCHANGED <<grouperVars, retryVars, pipeVars, analyzeVars, appVars, playerVars>>

DestroyKeepsSources ==
    /\ StopSubtitleTracking
    /\ closed' = TRUE
    /\ closeRejected' = (closeRejected \/ ContextClose(closed).promise = "rejected")
    /\ lastPoll' = NoPoll
    /\ UNCHANGED <<engineChunks, audioBuffers, scheduledSources, sources,
                   isPlaying, playbackStartTime, videoTimeOffset,
                   onSubtitleChange, now, playCount, lastPlay, lastCall>>
    /\ UNCHANGED <<grouperVars, retryVars, pipeVars, analyzeVars, appVars, playerVars>>

\* lines 173-177, called on an open or on a closed engine; no other method
\* is called on a closed engine (its owner drops it)
Destroy ==
    /\ ~ContextClose(closed).threw
    /\ sources' = StopAllSources
    /\ scheduledSources' = <<>>
    /\ StopSubtitleTracking
    /\ closed' = TRUE
    /\ closeRejected' = (closeRejected \/ ContextClose(closed).promise = "rejected")
    /\ lastPoll' = NoPoll
    /\ UNCHANGED <<engineChunks, audioBuffers, isPlaying, playbackStartTime,
                   videoTimeOffset, onSubtitleChange, now, playCount, lastPlay,
                   lastCall>>
    /\ UNCHANGED <<grouperVars, retryVars, pipeVars, analyzeVars, appVars, playerVars>>

GetCurrentVideoTimeIgnoresPause ==
    videoTimeOffset + (now - playbackStartTime)

\* lines 136-139
GetCurrentVideoTime ==
    IF ~isPlaying THEN videoTimeOffset
    ELSE videoTimeOffset + (now - playbackStartTime)

SubtitleOf(chunk) ==
    [ id        |-> chunk.id,
      startTime |-> chunk.startTime,
      endTime   |-> chunk.endTime,
      text      |-> chunk.translatedText ]

GetSubtitleAtClosedEnd(videoTime) ==
    LET hits == { k \in 1..Len(engineChunks) :
                    /\ videoTime >= engineChunks[k].startTime
                    /\ videoTime <= engineChunks[k].endTime }
    IN  IF hits = {} THEN <<>>
        ELSE LET k == CHOOSE j \in hits : \A m \in hits : j <= m
             IN  << SubtitleOf(engineChunks[k]) >>

\* lines 156-168: <<subtitle>>, or <<>> for null
GetSubtitleAt(videoTime) ==
    LET hits == { k \in 1..Len(engineChunks) :
                    /\ videoTime >= engineChunks[k].startTime
                    /\ videoTime < engineChunks[k].endTime }
    IN  IF hits = {} THEN <<>>
        ELSE LET k == CHOOSE j \in hits : \A m \in hits : j <= m
             IN  << SubtitleOf(engineChunks[k]) >>

\* subtitle?.id
IdOf(subtitle) == IF subtitle = <<>> THEN Undefined ELSE subtitle[1].id

\* subtitle?.id ?? null
IdOrNull(subtitle) == IF subtitle = <<>> THEN Null ELSE subtitle[1].id

\* the record of a poll: the active chunk id (Null in a gap), whether the
\* callback was invoked, whether the active id differs from that of the
\* previous poll, and whether there was a previous poll
Polled(active, notified) ==
    [ polls    |-> IF lastPoll.polls = 0 THEN 1 ELSE 2,
      active   |-> active,
      notified |-> notified,
      changed  |-> lastPoll.polls = 0 \/ active # lastPoll.active ]

\* lines 197-207: the interval timer id fires
PollTick ==
    /\ \E id \in DOMAIN timers :
          IF ~isPlaying \/ ~onSubtitleChange
          THEN UNCHANGED <<timers, lastPoll>>
          ELSE LET subtitle == GetSubtitleAt(GetCurrentVideoTime)
               IN  IF IdOf(subtitle) # timers[id]
                   THEN /\ timers' = [timers EXCEPT ![id] = IdOrNull(subtitle)]
                        /\ lastPoll' = Polled(IdOrNull(subtitle), TRUE)
                   ELSE /\ UNCHANGED timers
                        /\ lastPoll' = Polled(IdOrNull(subtitle), FALSE)
    /\ UNCHANGED <<engineChunks, audioBuffers, scheduledSources, sources,
                   isPlaying, playbackStartTime, videoTimeOffset,
                   onSubtitleChange, subtitleInterval, now, closed, closeRejected, playCount,
                   lastPlay, lastCall>>
    /\ UNCHANGED <<grouperVars, retryVars, pipeVars, analyzeVars, appVars, playerVars>>

\* lines 78-80: the ended event of a source node is dispatched
SourceEnded ==
    /\ \E s \in sources :
          /\ EndedDue(s)
          /\ LET scheduled == [id \in DOMAIN scheduledSources \ {s.chunk} |->
                                  scheduledSources[id]]
             IN  /\ scheduledSources' = scheduled
                 /\ sources' = Collect(sources \ {s}, scheduled)
    /\ UNCHANGED <<engineChunks, audioBuffers, isPlaying, playbackStartTime,
                   videoTimeOffset, onSubtitleChange, subtitleInterval, timers,
                   now, closed, closeRejected, playCount, lastPlay, lastCall, lastPoll>>
    /\ UNCHANGED <<grouperVars, retryVars, pipeVars, analyzeVars, appVars, playerVars>>

\* audioContext.currentTime advances by half a second
ClockTick ==
    /\ ~closed
    /\ now < MaxClock
    /\ now' = now + 1
    /\ UNCHANGED <<engineChunks, audioBuffers, scheduledSources, sources,
                   isPlaying, playbackStartTime, videoTimeOffset,
                   onSubtitleChange, subtitleInterval, timers, closed, closeRejected,
                   playCount, lastPlay, lastCall, lastPoll>>
    /\ UNCHANGED <<grouperVars, retryVars, pipeVars, analyzeVars, appVars, playerVars>>

EngineInit ==
    /\ GrouperIdle
    /\ RetryIdle
    /\ PipeIdle
    /\ AnalyzeIdle
    /\ EngineIdle
    /\ AppIdle
    /\ PlayerIdle

EngineNext ==
    \/ LoadChunks
    \/ Play
    \/ Pause
    \/ SeekTo
    \/ OnSubtitle
    \/ Destroy
    \/ PollTick
    \/ SourceEnded
    \/ ClockTick

SpecEngine == EngineInit /\ [][EngineNext]_vars

\* The engine asked for subtitles only: lists are loaded and getSubtitleAt
\* is called for every half second around them.
LoadSubtitleChunks == LoadChunksFrom(SubtitleChunkLists)

\* every half second from before the first chunk to after the last one
TimeRange == Sec(4)..Sec(14)

\* lines 156-168, called from outside; the call is recorded
GetSubtitleAtCall ==
    /\ ~closed
    /\ \E t \in TimeRange : lastCall' = Called("getSubtitleAt", t)
    /\ UNCHANGED <<engineChunks, audioBuffers, scheduledSources, sources,
                   isPlaying, playbackStartTime, videoTimeOffset,
                   onSubtitleChange, subtitleInterval, timers, now, closed,
                   closeRejected, playCount, lastPlay, lastPoll>>
    /\ UNCHANGED <<grouperVars, retryVars, pipeVars, analyzeVars, appVars, playerVars>>

SubtitlesNext ==
    \/ LoadSubtitleChunks
    \/ GetSubtitleAtCall

SpecSubtitles == EngineInit /\ [][SubtitlesNext]_vars

-----------------------------------------------------------------------------
(* Claims about AudioSyncEngine *)

\* the chunk has a decoded buffer and startTime - t >= -audioDuration
Qualifies(chunk, t) ==
    /\ chunk.id \in DOMAIN audioBuffers
    /\ PcmBytes(chunk.startTime - t) >= -chunk.audioDuration

\* the in-buffer offset of a chunk in progress lies inside its buffer
OffsetInsideBuffer(chunk, t) ==
    chunk.startTime < t => PcmBytes(t - chunk.startTime) < audioBuffers[chunk.id]

\* the sources the last run of play created for the chunk and started
StartedFor(chunk) ==
    { s \in sources :
        s.gen = playCount /\ s.chunk = chunk.id /\ s.state = "started" }

\* what the last run of play left behind, with or without the exception for
\* offsets beyond the buffer
Scheduling(exceptBeyondBuffer) ==
    LET t  == lastPlay.t
        at == lastPlay.at
    IN  /\ \A k \in 1..Len(engineChunks) :
              LET chunk == engineChunks[k]
              IN  /\ (StartedFor(chunk) # {}) <=>
                        /\ Qualifies(chunk, t)
                        /\ exceptBeyondBuffer => OffsetInsideBuffer(chunk, t)
                  /\ \A s \in StartedFor(chunk) :
                        IF chunk.startTime >= t
                        THEN s.when = at + (chunk.startTime - t) /\ s.offset = 0
                        ELSE s.when = at /\ s.offset = t - chunk.startTime
        /\ (engineChunks = ExampleChunks /\ t = Sec(5)) =>
              \E s \in StartedFor(ExampleChunks[1]) :
                  s.when = at + Sec(5) /\ s.offset = 0
        /\ (engineChunks = ExampleChunks /\ t = Sec(11)) =>
              \E s \in StartedFor(ExampleChunks[1]) :
                  s.when = at /\ s.offset = Sec(1)

\* C16 as stated: a run of play(t) starts or schedules a source for exactly
\* the chunks that have a decoded buffer and satisfy startTime - t >=
\* -audioDuration; a chunk with startTime >= t at the clock of the call +
\* (startTime - t), a chunk in progress at once at offset t - startTime.
C16_PlaySchedules ==
    [][playCount' = playCount + 1 => Scheduling(FALSE)']_vars

\* C16 amended: as stated, except that a chunk in progress whose offset
\* t - startTime is not smaller than the duration of its decoded buffer gets
\* a source that is never started.
C16_PlaySchedulesInsideBuffer ==
    [][playCount' = playCount + 1 => Scheduling(TRUE)']_vars

\* play(11) has started the chunk at 10-13 s at once, one second into its
\* buffer.
C16_Witness ==
    /\ engineChunks = ExampleChunks
    /\ lastCall.op = "play"
    /\ lastPlay.t = Sec(11)
    /\ lastPlay.at = now
    /\ \E s \in StartedFor(ExampleChunks[1]) :
          s.when = now /\ s.offset = Sec(1) /\ Audible(s)

\* C17: once pause() has returned (and until the next play), no source of
\* the engine is playing or waiting for its start time.
C17_PauseHaltsAll ==
    lastCall.op = "pause" => \A s \in sources : ~Audible(s)

\* C18: a poll of the running poller invokes the callback only when the
\* active chunk id (or its absence) differs from that of the previous poll.
C18_NotifiesOnlyOnChange ==
    (lastPoll.polls = 2 /\ lastPoll.notified) => lastPoll.changed

\* C19: while the engine is playing getCurrentVideoTime() is the argument of
\* the last play plus the time the clock has advanced since that call; while
\* it is paused the returned value does not change as the clock advances.
C19_VideoTimeFollowsClock ==
    /\ [](isPlaying => GetCurrentVideoTime = lastPlay.t + (now - lastPlay.at))
    /\ [][(~isPlaying /\ ~isPlaying' /\ now' # now) =>
             GetCurrentVideoTime' = GetCurrentVideoTime]_vars

\* play(5) was called and the clock has advanced since.
C19_Witness ==
    /\ isPlaying
    /\ lastPlay.t = Sec(5)
    /\ now > lastPlay.at + 1
    /\ GetCurrentVideoTime > Sec(5) + 1

\* C20: after seekTo(v) on a paused engine getCurrentVideoTime() returns v,
\* no source is playing or pending and no poller runs.
C20_SeekWhilePausedMovesOffset ==
    (lastCall.op = "seekTo" /\ ~lastCall.wasPlaying /\ playCount > 0) =>
        /\ GetCurrentVideoTime = lastCall.arg
        /\ \A s \in sources : ~Audible(s)
        /\ DOMAIN timers = {}

\* C21: a seekTo(v) on a playing engine leaves the sources, the map, the
\* recorded clock reading, the offset and the poller exactly as play(v) would
\* leave them from the same state.
C21_SeekWhilePlayingIsPlay ==
    [][(lastCall' # lastCall /\ lastCall'.op = "seekTo" /\ lastCall'.wasPlaying)
          => PlayFrom(lastCall'.arg)]_vars

\* seekTo(11) on an engine that was playing from 5 s has rescheduled the
\* chunk at 10-13 s.
C21_Witness ==
    /\ lastCall = [op |-> "seekTo", arg |-> Sec(11), wasPlaying |-> TRUE]
    /\ engineChunks = ExampleChunks
    /\ playCount = 2
    /\ videoTimeOffset = Sec(11)
    /\ \E s \in sources : s.gen = 1 /\ s.state = "stopped"
    /\ \E s \in sources : s.gen = 2 /\ s.state = "started" /\ s.offset = Sec(1)

C23_DestroyIdempotent ==
    closed =>
        /\ scheduledSources = <<>>
        /\ subtitleInterval = NoTimer
        /\ DOMAIN timers = {}
        /\ StopAllSources = sources
        /\ ~ContextClose(closed).threw
        /\ ~closeRejected

\* C24: the engine holds a decoded buffer for exactly the loaded chunks whose
\* payload is present and decodes, and every loaded chunk, with or without
\* audio, is returned by getSubtitleAt for some video time.
C24_LoadKeepsEveryChunk ==
    /\ DOMAIN audioBuffers =
          { engineChunks[k].id : k \in
              { j \in 1..Len(engineChunks) :
                  /\ engineChunks[j].audioBase64 # 0
                  /\ ~DecodeAudio(engineChunks[j].audioBase64).threw } }
    /\ \A k \in 1..Len(engineChunks) :
          \E t \in TimeRange : GetSubtitleAt(t) = <<SubtitleOf(engineChunks[k])>>

\* The list with a chunk with audio, a silent chunk and an undecodable one
\* is loaded.
C24_Witness ==
    /\ engineChunks = GapChunks
    /\ DOMAIN audioBuffers = {0}

Covering(t) ==
    { k \in 1..Len(engineChunks) :
        engineChunks[k].startTime <= t /\ t < engineChunks[k].endTime }

NonOverlapping ==
    \A j, k \in 1..Len(engineChunks) :
        j < k => \/ engineChunks[j].endTime <= engineChunks[k].startTime
                 \/ engineChunks[k].endTime <= engineChunks[j].startTime

\* C25: getSubtitleAt(t) is null for t outside every chunk's interval
\* [startTime, endTime); for t inside an interval it is the subtitle of a
\* chunk whose interval holds t, and with non-overlapping intervals that
\* chunk is the only one.
C25_SubtitleAt ==
    \A t \in TimeRange :
        LET inside == Covering(t)
            got    == GetSubtitleAt(t)
        IN  IF inside = {}
            THEN got = <<>>
            ELSE /\ \E k \in inside : got = <<SubtitleOf(engineChunks[k])>>
                 /\ NonOverlapping => Cardinality(inside) = 1

\* getSubtitleAt is called for a time that two loaded chunks cover, and
\* returns the one listed first.
C25_Witness ==
    /\ engineChunks = NestedChunks
    /\ lastCall = Called("getSubtitleAt", Sec(6))
    /\ Covering(lastCall.arg) = {1, 2}
    /\ GetSubtitleAt(lastCall.arg) = <<SubtitleOf(NestedChunks[1])>>

\* C30: at a pause the value of getCurrentVideoTime() does not decrease.
C30_NoBackwardJumpAtPause ==
    [][(isPlaying /\ ~isPlaying') => GetCurrentVideoTime' >= GetCurrentVideoTime]_vars

-----------------------------------------------------------------------------
(* App (part_000): the handlers of the page, split at their awaits *)

\* the calls of handleFullTranslation that reach translateAllChunks
MaxRuns == 2

UrlA == "https://youtu.be/AAAAAAAAAAA"

UrlInputs == { "", UrlA }

\* youtubeService.ts lines 109-113 on the URLs above: <<id>>, or <<>> for null
ExtractVideoId(url) ==
    IF url = UrlA THEN <<"AAAAAAAAAAA">> ELSE <<>>

\* the errors a rejected service call carries: with and without a message
RejectionErrors == { [message |-> ""], [message |-> "quota exceeded"] }

\* err.message || fallback
MessageOrRaw(err, fallback) == err.message

MessageOr(err, fallback) ==
    IF err.message # "" THEN err.message ELSE fallback

\* the analyses analyzeContext returns, by the two fields App reads
Analyses ==
    { [hasExplicitContent |-> TRUE,  detectedGender |-> "female"],
      [hasExplicitContent |-> FALSE, detectedGender |-> "male"] }

\* constants.ts lines 21-27, by the fields App reads
AVAILABLE_VOICES ==
    << [id |-> "cloned-v1", gender |-> "male",   type |-> "cloned"],
       [id |-> "syn-f-1",   gender |-> "female", type |-> "synthetic"],
       [id |-> "syn-m-1",   gender |-> "male",   type |-> "synthetic"],
       [id |-> "syn-f-2",   gender |-> "female", type |-> "synthetic"],
       [id |-> "syn-m-2",   gender |-> "male",   type |-> "synthetic"] >>

\* the voices picked in the voice studio
PickedVoices == { "cloned-v1", "syn-f-1" }

\* lines 95-97
MatchingVoice(analysis) ==
    LET hits == { k \in 1..Len(AVAILABLE_VOICES) :
                    /\ AVAILABLE_VOICES[k].type = "cloned"
                    /\ AVAILABLE_VOICES[k].gender = analysis.detectedGender }
    IN  IF hits = {} THEN AVAILABLE_VOICES[1]
        ELSE AVAILABLE_VOICES[CHOOSE k \in hits : \A m \in hits : k <= m]

\* a suspended call; run numbers the calls of translateAllChunks and is 0
\* for the other calls
Task(run, pc, video) ==
    [run |-> run, pc |-> pc, video |-> video, aborted |-> FALSE]

\* the user waits for a fetch or an analysis to settle before starting the
\* next one; translation runs, which take minutes, are not waited for
NoFetchPending == \A t \in appTasks : t.run # 0

Step(op, task) == [op |-> op, run |-> task.run, aborted |-> task.aborted]

UserStep(op) == [op |-> op, run |-> 0, aborted |-> FALSE]

\* lines 198, 266, 313, 338: what the page shows
LandingPage ==
    processingState = "IDLE" /\ videoId = <<>> /\ errorMessage = <<>>

PreviewCard == processingState = "PREVIEWING_VIDEO" /\ videoMetadata # <<>>

LanguageConfigShownBehindModal ==
    /\ videoId # <<>>
    /\ contextResult # <<>>
    /\ processingState = "IDLE"

LanguageConfigShown ==
    /\ videoId # <<>>
    /\ contextResult # <<>>
    /\ ~showContentWarning
    /\ processingState = "IDLE"

VoiceStudioShown ==
    /\ processingState \in { "VOICE_STUDIO", "GENERATING_PREVIEW" }
    /\ contextResult # <<>>

\* lines 356-374: the props of the VideoPlayer, or <<>> when it is not shown
PlayerProps ==
    IF /\ videoId # <<>>
       /\ processingState \in { "READY_TO_PLAY", "PLAYING", "PAUSED" }
    THEN << [videoId |-> videoId[1], translatedChunks |-> appTranslatedChunks] >>
    ELSE <<>>

\* line 222
SetUrlInput ==
    /\ LandingPage
    /\ \E u \in UrlInputs : urlInput' = u
    /\ appLast' = UserStep("setUrlInput")
    /\ UNCHANGED <<apiKey, videoId, videoMetadata, settings, processingState,
                   showContentWarning, errorMessage, isFetchingPreview,
                   contextResult, transcriptChunks, appTranslatedChunks,
                   translationProgress, appTasks, started, failedRuns>>
    /\ UNCHANGED <<grouperVars, retryVars, pipeVars, analyzeVars, engineVars, playerVars>>

\* lines 39-50, up to the await; the Enter key of line 223 calls it whatever
\* the input holds
HandleUrlSubmit ==
    /\ LandingPage
    /\ LET id == ExtractVideoId(urlInput)
       IN  IF id = <<>>
           THEN /\ errorMessage' = <<"URL YouTube invalide.">>
                /\ appLast' = UserStep("handleUrlSubmit")
                /\ UNCHANGED <<isFetchingPreview, appTasks, started>>
           ELSE /\ NoFetchPending
                /\ errorMessage' = <<>>
                /\ isFetchingPreview' = TRUE
                /\ appTasks' = appTasks \cup
                      { Task(0, "fetchVideoMetadata", id[1]) }
                /\ appLast' = UserStep("handleUrlSubmit")
                /\ UNCHANGED started
    /\ UNCHANGED <<apiKey, urlInput, videoId, videoMetadata, settings,
                   processingState, showContentWarning, contextResult,
                   transcriptChunks, appTranslatedChunks, translationProgress,
                   failedRuns>>
    /\ UNCHANGED <<grouperVars, retryVars, pipeVars, analyzeVars, engineVars, playerVars>>

\* lines 50-58: fetchVideoMetadata settles
MetadataSettles ==
    /\ \E t \in appTasks :
          /\ t.pc = "fetchVideoMetadata"
          /\ appTasks' = appTasks \ {t}
          /\ isFetchingPreview' = FALSE
          /\ \/ /\ videoId' = <<t.video>>
                /\ videoMetadata' = <<t.video>>
                /\ processingState' = "PREVIEWING_VIDEO"
                /\ appLast' = Step("fetchVideoMetadata returned", t)
                /\ UNCHANGED errorMessage
             \/ /\ \E err \in RejectionErrors :
                      errorMessage' =
                          <<MessageOr(err, "Impossible de charger la video.")>>
                /\ appLast' = Step("fetchVideoMetadata threw", t)
                /\ UNCHANGED <<videoId, videoMetadata, processingState>>
    /\ UNCHANGED <<apiKey, urlInput, settings, showContentWarning, contextResult,
                   transcriptChunks, appTranslatedChunks, translationProgress,
                   started, failedRuns>>
    /\ UNCHANGED <<grouperVars, retryVars, pipeVars, analyzeVars, engineVars, playerVars>>

\* lines 64-77, up to the await
HandleStartAnalysis ==
    /\ PreviewCard
    /\ appLast' = UserStep("handleStartAnalysis")
    /\ IF ~apiKey
       THEN /\ errorMessage' = <<"Cle API Gemini manquante.">>
            /\ processingState' = "ERROR"
            /\ UNCHANGED <<appTasks, started>>
       ELSE IF videoId = <<>>
       THEN UNCHANGED <<errorMessage, processingState, appTasks, started>>
       ELSE /\ NoFetchPending
            /\ errorMessage' = <<>>
            /\ processingState' = "FETCHING_TRANSCRIPT"
            /\ appTasks' = appTasks \cup
                  { Task(0, "fetchTranscript", videoId[1]) }
            /\ UNCHANGED started
    /\ UNCHANGED <<apiKey, urlInput, videoId, videoMetadata, settings,
                   showContentWarning, isFetchingPreview, contextResult,
                   transcriptChunks, appTranslatedChunks, translationProgress,
                   failedRuns>>
    /\ UNCHANGED <<grouperVars, retryVars, pipeVars, analyzeVars, engineVars, playerVars>>

\* lines 107-109 and 149-151: the catch blocks
Fatal(t, op, message) ==
    /\ errorMessage' = <<message>>
    /\ processingState' = "ERROR"
    /\ appTasks' = appTasks \ {t}
    /\ failedRuns' = failedRuns \cup ({t.run} \ {0})
    /\ appLast' = Step(op, t)

\* lines 77-91: fetchTranscript settles; a transcript with segments is grouped
\* into the chunks of its video
TranscriptSettles ==
    /\ \E t \in appTasks :
          /\ t.pc = "fetchTranscript"
          /\ \/ /\ \E err \in RejectionErrors :
                      Fatal(t, "fetchTranscript threw",
                            MessageOr(err, "Erreur lors de l'analyse de la video."))
                /\ UNCHANGED transcriptChunks
             \/ /\ Fatal(t, "fetchTranscript returned no segment",
                         "Aucun sous-titre trouve pour cette video.")
                /\ UNCHANGED transcriptChunks
             \/ /\ transcriptChunks' = << [video |-> t.video] >>
                /\ processingState' = "ANALYZING_METADATA"
                /\ appTasks' = (appTasks \ {t}) \cup
                                  { [t EXCEPT !.pc = "analyzeContext"] }
                /\ appLast' = Step("fetchTranscript returned", t)
                /\ UNCHANGED <<errorMessage, failedRuns>>
    /\ UNCHANGED <<apiKey, urlInput, videoId, videoMetadata, settings,
                   showContentWarning, isFetchingPreview, contextResult,
                   appTranslatedChunks, translationProgress, started>>
    /\ UNCHANGED <<grouperVars, retryVars, pipeVars, analyzeVars, engineVars, playerVars>>

\* lines 91-106: analyzeContext returns (it never throws)
AnalysisSettles ==
    /\ \E t \in appTasks, analysis \in Analyses :
          /\ t.pc = "analyzeContext"
          /\ appTasks' = appTasks \ {t}
          /\ contextResult' = <<analysis>>
          /\ settings' =
                [settings EXCEPT !.selectedVoiceId = MatchingVoice(analysis).id]
          /\ IF analysis.hasExplicitContent
             THEN /\ processingState' = "WAITING_USER_INPUT"
                  /\ showContentWarning' = TRUE
             ELSE /\ processingState' = "IDLE"
                  /\ UNCHANGED showContentWarning
          /\ appLast' = Step("analyzeContext returned", t)
    /\ UNCHANGED <<apiKey, urlInput, videoId, videoMetadata, errorMessage,
                   isFetchingPreview, transcriptChunks, appTranslatedChunks,
                   translationProgress, started, failedRuns>>
    /\ UNCHANGED <<grouperVars, retryVars, pipeVars, analyzeVars, engineVars, playerVars>>

\* lines 116-120, behind the modal of lines 388-391
HandleExplicitDecision ==
    /\ showContentWarning
    /\ \E shouldCensure \in BOOLEAN :
          settings' = [settings EXCEPT !.censureExplicit = shouldCensure]
    /\ showContentWarning' = FALSE
    /\ processingState' = "IDLE"
    /\ appLast' = UserStep("handleExplicitDecision")
    /\ UNCHANGED <<apiKey, urlInput, videoId, videoMetadata, errorMessage,
                   isFetchingPreview, contextResult, transcriptChunks,
                   appTranslatedChunks, translationProgress, appTasks, started,
                   failedRuns>>
    /\ UNCHANGED <<grouperVars, retryVars, pipeVars, analyzeVars, engineVars, playerVars>>

\* line 332
OnContinue ==
    /\ LanguageConfigShown
    /\ processingState' = "VOICE_STUDIO"
    /\ appLast' = UserStep("onContinue")
    /\ UNCHANGED <<apiKey, urlInput, videoId, videoMetadata, settings,
                   showContentWarning, errorMessage, isFetchingPreview,
                   contextResult, transcriptChunks, appTranslatedChunks,
                   translationProgress, appTasks, started, failedRuns>>
    /\ UNCHANGED <<grouperVars, retryVars, pipeVars, analyzeVars, engineVars, playerVars>>

\* line 341, called by VoiceStudio.tsx line 51 with the voice picked
UpdateSettings ==
    /\ VoiceStudioShown
    /\ \E voice \in PickedVoices :
          settings' = [settings EXCEPT !.selectedVoiceId = voice]
    /\ appLast' = UserStep("updateSettings")
    /\ UNCHANGED <<apiKey, urlInput, videoId, videoMetadata, processingState,
                   showContentWarning, errorMessage, isFetchingPreview,
                   contextResult, transcriptChunks, appTranslatedChunks,
                   translationProgress, appTasks, started, failedRuns>>
    /\ UNCHANGED <<grouperVars, retryVars, pipeVars, analyzeVars, engineVars, playerVars>>

\* lines 125-136, up to the await
HandleFullTranslation ==
    /\ VoiceStudioShown
    /\ appLast' = UserStep("handleFullTranslation")
    /\ IF contextResult = <<>> \/ Len(transcriptChunks) = 0
       THEN UNCHANGED <<processingState, translationProgress, appTasks, started>>
       ELSE /\ started < MaxRuns
            /\ processingState' = "TRANSLATING_SEGMENTS"
            /\ translationProgress' = <<>>
            /\ started' = started + 1
            /\ appTasks' = appTasks \cup
                  { Task(started + 1, "translateAllChunks",
                         transcriptChunks[1].video) }
    /\ UNCHANGED <<apiKey, urlInput, videoId, videoMetadata, settings,
                   showContentWarning, errorMessage, isFetchingPreview,
                   contextResult, transcriptChunks, appTranslatedChunks,
                   failedRuns>>
    /\ UNCHANGED <<grouperVars, retryVars, pipeVars, analyzeVars, engineVars, playerVars>>

\* line 141: the onProgress callback of a run in flight
OnProgress ==
    /\ \E t \in appTasks :
          /\ t.pc = "translateAllChunks"
          /\ translationProgress' = << [video |-> t.video] >>
          /\ appLast' = Step("onProgress", t)
    /\ UNCHANGED <<apiKey, urlInput, videoId, videoMetadata, settings,
                   processingState, showContentWarning, errorMessage,
                   isFetchingPreview, contextResult, transcriptChunks,
                   appTranslatedChunks, appTasks, started, failedRuns>>
    /\ UNCHANGED <<grouperVars, retryVars, pipeVars, analyzeVars, engineVars, playerVars>>

\* lines 136-151: translateAllChunks settles
TranslationSettles ==
    /\ \E t \in appTasks :
          /\ t.pc = "translateAllChunks"
          /\ \/ /\ appTranslatedChunks' = << [video |-> t.video, run |-> t.run] >>
                /\ processingState' = "READY_TO_PLAY"
                /\ appTasks' = (appTasks \ {t}) \cup
                                  { [t EXCEPT !.pc = "setTimeout"] }
                /\ appLast' = Step("translateAllChunks returned", t)
                /\ UNCHANGED <<errorMessage, failedRuns>>
             \/ /\ \E err \in RejectionErrors :
                      Fatal(t, "translateAllChunks threw",
                            MessageOr(err, "Erreur lors de la traduction."))
                /\ UNCHANGED appTranslatedChunks
    /\ UNCHANGED <<apiKey, urlInput, videoId, videoMetadata, settings,
                   showContentWarning, isFetchingPreview, contextResult,
                   transcriptChunks, translationProgress, started>>
    /\ UNCHANGED <<grouperVars, retryVars, pipeVars, analyzeVars, engineVars, playerVars>>

\* line 148: the auto-play timer fires
TimerFires ==
    /\ \E t \in appTasks :
          /\ t.pc = "setTimeout"
          /\ processingState' = "PLAYING"
          /\ appTasks' = appTasks \ {t}
          /\ appLast' = Step("setTimeout fired", t)
    /\ UNCHANGED <<apiKey, urlInput, videoId, videoMetadata, settings,
                   showContentWarning, errorMessage, isFetchingPreview,
                   contextResult, transcriptChunks, appTranslatedChunks,
                   translationProgress, started, failedRuns>>
    /\ UNCHANGED <<grouperVars, retryVars, pipeVars, analyzeVars, engineVars, playerVars>>

\* lines 158-168, behind the logo of line 178 on every page; the calls it
\* leaves suspended are marked as aborted
HandleReset ==
    /\ videoId' = <<>>
    /\ videoMetadata' = <<>>
    /\ processingState' = "IDLE"
    /\ appTranslatedChunks' = <<>>
    /\ transcriptChunks' = <<>>
    /\ urlInput' = ""
    /\ contextResult' = <<>>
    /\ translationProgress' = <<>>
    /\ errorMessage' = <<>>
    /\ appTasks' = { [t EXCEPT !.aborted = TRUE] : t \in appTasks }
    /\ appLast' = UserStep("handleReset")
    /\ UNCHANGED <<apiKey, settings, showContentWarning, isFetchingPreview,
                   started, failedRuns>>
    /\ UNCHANGED <<grouperVars, retryVars, pipeVars, analyzeVars, engineVars, playerVars>>

AppInit ==
    /\ apiKey \in BOOLEAN
    /\ AppMounted
    /\ GrouperIdle
    /\ RetryIdle
    /\ PipeIdle
    /\ AnalyzeIdle
    /\ EngineIdle
    /\ PlayerIdle

AppNext ==
    \/ SetUrlInput
    \/ HandleUrlSubmit
    \/ MetadataSettles
    \/ HandleStartAnalysis
    \/ TranscriptSettles
    \/ AnalysisSettles
    \/ HandleExplicitDecision
    \/ OnContinue
    \/ UpdateSettings
    \/ HandleFullTranslation
    \/ OnProgress
    \/ TranslationSettles
    \/ TimerFires
    \/ HandleReset

SpecApp == AppInit /\ [][AppNext]_vars

-----------------------------------------------------------------------------
(* Claims about App *)

RunSteps ==
    { "translateAllChunks returned", "translateAllChunks threw",
      "setTimeout fired" }

\* C26: when a translation run that a reset left pending completes, or its
\* auto-play timer fires, the processing state and the translated chunks
\* stay as they are (IDLE and empty right after the reset) and the player is
\* not given the run's chunks.
C26_AbortedRunDiscarded ==
    [][(appLast' # appLast /\ appLast'.op \in RunSteps /\ appLast'.aborted)
          => /\ processingState' = processingState
             /\ appTranslatedChunks' = appTranslatedChunks
             /\ PlayerProps' = PlayerProps]_vars

FatalSteps ==
    { "translateAllChunks threw", "fetchTranscript threw",
      "fetchTranscript returned no segment" }

\* C27: after translateAllChunks has thrown, or fetchTranscript has thrown or
\* returned no segment, processingState is ERROR and the error message is a
\* non-empty string; and no call that ended so sets READY_TO_PLAY or PLAYING.
C27_FatalConditionsShowError ==
    /\ appLast.op \in FatalSteps =>
          /\ processingState = "ERROR"
          /\ errorMessage # <<>>
          /\ errorMessage[1] # ""
    /\ appLast.op \in { "translateAllChunks returned", "setTimeout fired" } =>
          appLast.run \notin failedRuns

\* translateAllChunks threw an error without a message.
C27_Witness ==
    /\ appLast.op = "translateAllChunks threw"
    /\ processingState = "ERROR"
    /\ errorMessage = <<"Erreur lors de la traduction.">>

\* C28: right after handleReset the App is as it was when it mounted: IDLE,
\* no video id, metadata, transcript chunks, translated chunks, context
\* result, progress or error message, no open explicit-content warning and
\* the default censorship and voice settings.
C28_ResetRestoresInitialState ==
    appLast.op = "handleReset" =>
        /\ processingState = "IDLE"
        /\ videoId = <<>>
        /\ videoMetadata = <<>>
        /\ transcriptChunks = <<>>
        /\ appTranslatedChunks = <<>>
        /\ contextResult = <<>>
        /\ translationProgress = <<>>
        /\ errorMessage = <<>>
        /\ urlInput = ""
        /\ ~showContentWarning
        /\ settings = DEFAULT_SETTINGS

\* C29: at most one call of translateAllChunks is in flight.
C29_OneRunInFlight ==
    Cardinality({ t \in appTasks : t.pc = "translateAllChunks" }) <= 1

-----------------------------------------------------------------------------
(* translateAllChunks: payloads, durations and termination *)

\* the dubbed chunks translateAllChunks has built so far, and those it
\* returned
OutputChunks ==
    {translatedChunks[k] : k \in DOMAIN translatedChunks}
        \cup (IF pipeResult = <<>> THEN {}
              ELSE {pipeResult[1][k] : k \in DOMAIN pipeResult[1]})

\* C36: in every dubbed chunk of translateAllChunks the audio payload is
\* absent if and only if audioDuration is 0; a present payload has a
\* positive audioDuration.
C36_PayloadAbsentIffNoDuration ==
    \A tc \in OutputChunks : (tc.audioBase64 = 0) <=> (tc.audioDuration = 0)

\* a returned run whose first chunk has no payload (and duration 0) and whose
\* second chunk has a payload (and a positive duration)
C36_Witness ==
    /\ pipePc = "returned"
    /\ Len(pipeResult[1]) = 2
    /\ pipeResult[1][1].audioBase64 = 0
    /\ pipeResult[1][1].audioDuration = 0
    /\ pipeResult[1][2].audioBase64 > 0
    /\ pipeResult[1][2].audioDuration > 0

PipeTerminated == pipePc \in {"returned", "raised"}

\* C37: when every service call and every backoff sleep returns,
\* translateAllChunks returns or raises, and it never makes more than
\* 2 * N * (maxRetries + 1) service attempts, maxRetries being 3.
C37_TerminatesWithinAttemptBound ==
    /\ <>PipeTerminated
    /\ [](serviceAttempts <= 2 * N * (3 + 1))

\* a run over the longest chunk list that returned after exactly
\* 2 * N * (maxRetries + 1) attempts: every translation succeeded on its last
\* attempt and every synthesis was rate limited until its retries ran out
C37_Witness ==
    /\ pipePc = "returned"
    /\ N = MaxChunks
    /\ serviceAttempts = 2 * N * (3 + 1)

-----------------------------------------------------------------------------
(* translateAllChunks: the consistency window over a long chunk list *)

MaxWindowChunks == 5

\* a chunk list longer than the window
WindowChunkInputs ==
    { groupSegmentsIntoChunks(WithOffsets(
          [k \in 1..MaxWindowChunks |->
              [text |-> <<"a", ".">>,
               duration |-> Sec(CHUNK_MIN_DURATION_SEC)]], 0)) }

\* services that answer with one of two texts, or fail without rate limiting
WindowTranslateOutcomes ==
    { Ok([text |-> <<"x">>]), Ok([text |-> <<"y">>]), Failed(ErrInternal) }

WindowTtsOutcomes == { Ok([data |-> 8]), Failed(ErrInternal) }

WindowNext ==
    \/ PipeCall
    \/ PipeFnSettlesWith(WindowTranslateOutcomes, WindowTtsOutcomes)
    \/ TranslateReturns
    \/ TranslateThrows
    \/ TtsReturns
    \/ TtsCatches

SpecWindow == PipeInitFrom(WindowChunkInputs) /\ [][WindowNext]_vars

\* the translated texts of the output chunks max(0, i - 3) .. i - 1
WindowOf(idx) ==
    LET first == IF idx > 3 THEN idx - 3 ELSE 0
    IN  [k \in 1..(idx - first) |-> translatedChunks[first + k].translatedText]

\* C33: the translation request of chunk i carries as its consistency
\* window exactly the translated texts of chunks max(0, i - 3) .. i - 1, in
\* chunk order; no text for chunk 0, and never the text of a chunk that is
\* not translated yet.
C33_WindowIsLastThreeTranslations ==
    pipePc = "translate" =>
        /\ Len(translatedChunks) = i
        /\ request[1].recent = WindowOf(i)
        /\ i = 0 => request[1].recent = <<>>

\* the request of the fifth chunk: the window holds the texts of the second,
\* third and fourth chunks and leaves out the different text of the first
C33_Witness ==
    /\ pipePc = "translate"
    /\ i = 4
    /\ translatedChunks[1].translatedText = <<"x">>
    /\ request[1].recent = <<<<"y">>, <<"y">>, <<"x">>>>

-----------------------------------------------------------------------------
(* App: the explicit-content warning *)

\* a completion of analyzeContext reports explicit content in this step
ReportsExplicit ==
    /\ appLast'.op = "analyzeContext returned"
    /\ contextResult' # <<>>
    /\ contextResult'[1].hasExplicitContent

EntersTranslating ==
    /\ processingState # "TRANSLATING_SEGMENTS"
    /\ processingState' = "TRANSLATING_SEGMENTS"

-----------------------------------------------------------------------------
(* AudioSyncEngine: calls in any order, on an open or a destroyed engine *)

MaxReplays == 3

LifecycleLoad == LoadChunksFrom({ExampleChunks})

\* play is called on an open engine only
LifecyclePlay == PlayIf(~closed, MaxReplays)

LifecyclePause == PauseIf(TRUE)

LifecycleSeekTo == SeekToIf(TRUE, MaxReplays)

\* The clock stands still: every source play creates stays playing or
\* pending until it is stopped.
LifecycleNext ==
    \/ LifecycleLoad
    \/ OnSubtitle
    \/ LifecyclePlay
    \/ LifecyclePause
    \/ LifecycleSeekTo
    \/ Destroy
    \/ PollTick
    \/ SourceEnded

SpecLifecycle == EngineInit /\ [][LifecycleNext]_vars

\* the source nodes that are playing or pending
Live == { s \in sources : Audible(s) }

\* C31: after any sequence of play and seekTo calls interleaved with the
\* ended callbacks of stopped sources, every source that is playing or
\* pending was created by the most recent play, and no chunk has two such
\* sources.
C31_LiveSourcesAreFromLastPlay ==
    ~closed =>
        /\ \A s \in Live : s.gen = playCount
        /\ \A s1, s2 \in Live : s1.chunk = s2.chunk => s1 = s2

\* C32: after any sequence of play, pause, seekTo and destroy calls at most
\* one subtitle polling timer is active, and it is the one the engine holds.
C32_AtMostOnePoller ==
    /\ Cardinality(DOMAIN timers) <= 1
    /\ DOMAIN timers \subseteq {subtitleInterval}

\* the third play of an engine: the timers of the first two are cleared
C32_Witness ==
    /\ playCount = 3
    /\ DOMAIN timers = {3}
    /\ lastCall.op = "seekTo"

\* C39: a destroyed engine creates no source and starts no poller when
\* seekTo is called, and delivers no subtitle notification.
C39_DestroyedEngineIsInert ==
    /\ [][closed => /\ playCount' = playCount
                    /\ sources' \subseteq sources
                    /\ DOMAIN timers' = {}]_vars
    /\ [](closed => ~lastPoll.notified)

-----------------------------------------------------------------------------
(* AudioSyncEngine: loadChunks and play in either order *)

\* the sources of the last play that play the decoded buffer of the chunk
\* at the chunk's place in the video
SourcesOfBuffer(chunk) ==
    { s \in StartedFor(chunk) :
        /\ s.duration = audioBuffers[chunk.id]
        /\ s.when = IF chunk.startTime >= lastPlay.t
                    THEN lastPlay.at + (chunk.startTime - lastPlay.t)
                    ELSE lastPlay.at }

\* C35: whichever of loadChunks and play(t) completes first, once both have
\* completed (and before the clock moves on) every chunk whose payload was
\* decoded, with startTime - t >= -audioDuration and t inside its buffer,
\* has a source started or scheduled by that play.
C35_DecodedChunksInWindowHaveSource ==
    (/\ ~closed
     /\ isPlaying
     /\ playCount > 0
     /\ now = lastPlay.at) =>
        \A k \in 1..Len(engineChunks) :
            LET chunk == engineChunks[k]
            IN  (Qualifies(chunk, lastPlay.t)
                    /\ OffsetInsideBuffer(chunk, lastPlay.t)) =>
                SourcesOfBuffer(chunk) # {}

-----------------------------------------------------------------------------
(* VideoPlayer: the player's events drive the engine *)

\* YT.PlayerState: unstarted, ended, playing, paused, buffering, cued
PlayerStates == { -1, 0, 1, 2, 3, 5 }

PLAYING == 1
PAUSED  == 2
ENDED   == 0

\* getCurrentTime() || 0, and the seek times of the progress bar
PlayerTimes == { 0, Sec(11) }

\* the lists the App renders the player with
PlayerChunkLists == { <<>>, ExampleChunks }

EngineCallForIgnoresEnded(state) ==
    IF state = PLAYING THEN "play"
    ELSE IF state = PAUSED THEN "pause"
    ELSE "none"

\* lines 87-105: the engine method the handler reaches for a state code
EngineCallFor(state) ==
    IF state = PLAYING THEN "play"
    ELSE IF state = PAUSED THEN "pause"
    ELSE IF state = ENDED THEN "pause"
    ELSE "none"

\* lines 32-37, 45-49: the effects of the mount: the engine is created, the
\* subtitle callback registered, and a non-empty list is loaded (the load
\* is through before any event of the player is handled)
PlayerMount ==
    /\ ~playerLast.mounted
    /\ playerLast' = [playerLast EXCEPT !.mounted = TRUE]
    /\ onSubtitleChange' = TRUE
    /\ IF Len(playerChunks) > 0
       THEN /\ engineChunks' = playerChunks
            /\ audioBuffers' = DecodedBuffers(playerChunks)
       ELSE UNCHANGED <<engineChunks, audioBuffers>>
    /\ UNCHANGED <<scheduledSources, sources, isPlaying, playbackStartTime,
                   videoTimeOffset, subtitleInterval, timers, now, closed,
                   closeRejected, playCount, lastPlay, lastCall, lastPoll>>
    /\ UNCHANGED <<playerChunks, playerIsPlaying>>
    /\ UNCHANGED <<grouperVars, retryVars, pipeVars, analyzeVars, appVars>>

\* lines 83-106: the player reports a state, its clock being at time
OnPlayerStateChange ==
    /\ playerLast.mounted
    /\ \E state \in PlayerStates, time \in PlayerTimes :
          /\ playerLast' =
                [ mounted  |-> TRUE,
                  input    |-> "state",
                  state    |-> state,
                  playback |-> IF state \in {PLAYING, PAUSED, ENDED}
                               THEN <<state>> ELSE playerLast.playback,
                  time     |-> time ]
          /\ playerIsPlaying' =
                IF state = PLAYING THEN TRUE
                ELSE IF state \in {PAUSED, ENDED} THEN FALSE
                ELSE playerIsPlaying
          /\ IF EngineCallFor(state) = "play" /\ Len(playerChunks) > 0
             THEN playCount < MaxReplays /\ PlayCall(time)
             ELSE IF EngineCallFor(state) = "pause"
             THEN PauseCall
             ELSE UNCHANGED engineVars
    /\ UNCHANGED playerChunks
    /\ UNCHANGED <<grouperVars, retryVars, pipeVars, analyzeVars, appVars>>

\* lines 119-129: a click on the progress bar of a player that is ready
HandleSeek ==
    /\ playerLast.mounted
    /\ isPlaying => playCount < MaxReplays
    /\ \E seekTime \in PlayerTimes :
          /\ SeekToCall(seekTime)
          /\ playerLast' = [playerLast EXCEPT !.input = "seek",
                                               !.time = seekTime]
    /\ UNCHANGED <<playerChunks, playerIsPlaying>>
    /\ UNCHANGED <<grouperVars, retryVars, pipeVars, analyzeVars, appVars>>

\* the App is about to render the player with one of the lists
PlayerInit ==
    /\ GrouperIdle
    /\ RetryIdle
    /\ PipeIdle
    /\ AnalyzeIdle
    /\ EngineIdle
    /\ AppIdle
    /\ PlayerUnmounted
    /\ playerChunks \in PlayerChunkLists

PlayerNext ==
    \/ PlayerMount
    \/ OnPlayerStateChange
    \/ HandleSeek
    \/ PollTick
    \/ SourceEnded

SpecPlayer == PlayerInit /\ [][PlayerNext]_vars

\* C34: with a non-empty translated chunk list, after any sequence of
\* state-change events (and seeks) the engine is playing exactly when the
\* last event among playing, paused and ended was playing; a playing event
\* calls play with the player's current time, a paused or ended event calls
\* pause.
C34_EngineFollowsPlayer ==
    (playerLast.mounted /\ Len(playerChunks) > 0) =>
        /\ isPlaying <=> playerLast.playback = <<PLAYING>>
        /\ (playerLast.input = "state" /\ playerLast.state = PLAYING) =>
              /\ lastCall = Called("play", playerLast.time)
              /\ videoTimeOffset = playerLast.time
        /\ (playerLast.input = "state" /\ playerLast.state \in {PAUSED, ENDED}) =>
              lastCall = Called("pause", 0)

\* playing at 11 s, then buffering, then ended: the engine was started at
\* 11 s and is paused now
C34_Witness ==
    /\ Len(playerChunks) > 0
    /\ playerLast.input = "state"
    /\ playerLast.state = ENDED
    /\ playCount > 0
    /\ lastPlay.t = Sec(11)
    /\ ~isPlaying
    /\ lastCall.op = "pause"

=============================================================================
